---- MODULE Spec2Model ----
(***************************************************************************)
(* Model of packages/shared/src/network-interceptor.ts: the file-backed    *)
(* "last API error" cache (getStoredError / setStoredError /               *)
(* getLastApiError / clearLastApiError), the recorder logResponse, and the *)
(* dispatch state machine interceptedFetch.                                *)
(*                                                                         *)
(* The specifications of the module:                                       *)
(*   Spec      - one process: the recorder, the reader, the clear and the  *)
(*               clock, each library call run to completion;               *)
(*   SpecRace  - several OS processes on the error file, one file-system   *)
(*               call per step;                                            *)
(*   SpecFetch - one intercepted call at a time, one step per await;       *)
(*   SpecAssemble, SpecContents, SpecCalls, SpecForward, SpecSchema,       *)
(*   SpecRequest, SpecRoundTrip - the translation functions, each applied  *)
(*               to inputs drawn from bounded sets;                        *)
(*   SpecProfiles - the API profile store.                                 *)
(***************************************************************************)
EXTENDS Integers, Sequences, FiniteSets, TLC

VARIABLES
  fs,      \* the error file: [path: inode at ERROR_FILE or NoInode, data: inode -> bytes]
  now,     \* Date.now(), in ms
  seqlog,  \* Spec: the last operation and what it saw (history)
  pend,    \* Spec: the record of the last setStoredError call and the reads since
  pc,      \* SpecRace: each process's position
  loc,     \* SpecRace: each process's locals
  hist,    \* SpecRace: history of completed calls
  call,    \* SpecFetch: the intercepted call in flight
  asm,     \* SpecAssemble: the last buildAnthropicMessageFromGeminiResponse call
  conv,    \* SpecContents: the buildGeminiContents calls made so far
  fwd,     \* SpecForward: the last call on the non-translating branch
  sch,     \* SpecSchema: the last normalizeJsonSchemaForGemini call
  greq,    \* SpecRequest: the last geminiRequest built
  prof,    \* SpecProfiles: the API profiles and the last operation on them
  logr     \* SpecLog: the logResponse call in flight and the Response objects

(* The variables of the translation functions. *)
zl == <<prof, logr>>

yl == <<greq, zl>>

xl == <<asm, conv, fwd, sch, yl>>

vars == <<fs, now, seqlog, pend, pc, loc, hist, call, xl>>

----------------------------------------------------------------------------
(* Bounds *)

NumProcs == 2
MaxOps == 4
MaxTicks == 3
MaxCalls == 1

(* Program constants *)

MAX_ERROR_AGE_MS == 5 * 60 * 1000

----------------------------------------------------------------------------
(* Values *)

Null == [null |-> TRUE]
ParseError == [parseError |-> TRUE]
NoInode == 0
Procs == 1..NumProcs
Inodes == 1..(NumProcs + 1)

Min(S) == CHOOSE x \in S : \A y \in S : x <= y

(* A LastApiError record. *)
LastApiError(status, statusText, message, timestamp) ==
  [status |-> status, statusText |-> statusText, message |-> message,
   timestamp |-> timestamp]

----------------------------------------------------------------------------
(* JSON text of a record, as bytes.  Byte k of the text of record r is     *)
(* <<r, k>>; the length grows with the two strings of the record.          *)

JsonLength(rec) == 1 + Len(rec.statusText) + Len(rec.message)

JsonStringify(rec) == [k \in 1..JsonLength(rec) |-> <<rec, k>>]

(* JSON.parse: only the complete text of one record parses. *)
JsonParse(content) ==
  IF content # << >> /\ content = JsonStringify(content[1][1])
  THEN content[1][1]
  ELSE ParseError

----------------------------------------------------------------------------
(* The file system under ERROR_FILE.  fds is the set of inodes some        *)
(* process holds open.  An inode that is neither linked nor open is gone   *)
(* (its data is reset).                                                    *)

EmptyFs == [path |-> NoInode, data |-> [i \in Inodes |-> << >>]]

Reclaim(f, fds) ==
  [f EXCEPT !.data = [i \in Inodes |->
      IF i = f.path \/ i \in fds THEN f.data[i] ELSE << >>]]

ExistsSync(f) == f.path # NoInode

(* open(ERROR_FILE, O_WRONLY | O_CREAT | O_TRUNC): the inode opened. *)
OpenTruncFd(f, fds) ==
  IF f.path # NoInode THEN f.path
  ELSE Min({i \in Inodes : i \notin fds})

OpenTrunc(f, fds) ==
  LET i == OpenTruncFd(f, fds)
  IN [path |-> i, data |-> [f.data EXCEPT ![i] = << >>]]

(* write(fd, bytes) at offset 0 of a fresh descriptor: bytes beyond the    *)
(* written ones stay.                                                      *)
WriteAtZero(f, fd, bytes) ==
  LET old == f.data[fd]
  IN [f EXCEPT !.data[fd] =
        bytes \o (IF Len(old) > Len(bytes)
                  THEN SubSeq(old, Len(bytes) + 1, Len(old)) ELSE << >>)]

CloseFd(f, fds) == Reclaim(f, fds)

(* unlinkSync(ERROR_FILE); ENOENT is raised when nothing is linked. *)
UnlinkSync(f, fds) == Reclaim([f EXCEPT !.path = NoInode], fds)

(* readFileSync(ERROR_FILE, 'utf-8') of a linked file. *)
ReadFileSync(f) == f.data[f.path]

(* writeFileSync(ERROR_FILE, text) run to completion by a lone process. *)
WriteFileSync(f, bytes) ==
  LET fd == OpenTruncFd(f, {})
  IN CloseFd(WriteAtZero(OpenTrunc(f, {}), fd, bytes), {})

----------------------------------------------------------------------------
(* The error cache, each call run to completion. *)

(* The pop left out. *)
PopFileSkipped(f, fds) == f

(* "Pop: delete after reading" (lines 61-66); a failing unlink is ignored. *)
PopFile(f, fds) == UnlinkSync(f, fds)

(* A getStoredError that forgets to pop. *)
GetStoredErrorNoPop(f) ==
  IF ~ExistsSync(f) THEN [fs |-> f, error |-> Null]
  ELSE LET error == JsonParse(ReadFileSync(f))
       IN IF error = ParseError THEN [fs |-> f, error |-> Null]
          ELSE [fs |-> f, error |-> error]

(* getStoredError(): [fs: the file system after, error: the value returned]. *)
GetStoredError(f) ==
  IF ~ExistsSync(f) THEN [fs |-> f, error |-> Null]
  ELSE LET error == JsonParse(ReadFileSync(f))
       IN IF error = ParseError THEN [fs |-> f, error |-> Null]
          ELSE [fs |-> PopFile(f, {}), error |-> error]

(* setStoredError(error). *)
SetStoredError(f, error) ==
  IF error # Null THEN WriteFileSync(f, JsonStringify(error))
  ELSE UnlinkSync(f, {})

(* The age test of getLastApiError with <= for <. *)
IsFreshInclusive(error, t) == t - error.timestamp <= MAX_ERROR_AGE_MS

(* The age test of getLastApiError. *)
IsFresh(error, t) == t - error.timestamp < MAX_ERROR_AGE_MS

(* getLastApiError() at time t. *)
GetLastApiError(f, t) ==
  LET got == GetStoredError(f)
  IN [fs |-> got.fs,
      error |-> IF got.error # Null /\ IsFresh(got.error, t)
                THEN got.error ELSE Null]

(* clearLastApiError(). *)
ClearLastApiError(f) == SetStoredError(f, Null)

----------------------------------------------------------------------------
(* HTTP responses.  A body is [kind, msg]:                                 *)
(*   empty       ""                                                        *)
(*   text        msg, a non-empty text that is not JSON                    *)
(*   envelope    the JSON text {"error":{"message":msg}}                   *)
(*   msgjson     the JSON text {"message":msg}                             *)
(*   json        a JSON object with neither field                          *)
(*   jsonnull    the JSON text null                                        *)
(*   unreadable  a body whose text() rejects                               *)

Body(kind, msg) == [kind |-> kind, msg |-> msg]

Response(status, statusText, body) ==
  [status |-> status, statusText |-> statusText, body |-> body]

Bodies ==
  {Body(k, "") : k \in {"empty", "json", "jsonnull", "unreadable"}}
    \cup {Body("text", "boom")}
    \cup {Body(k, m) : k \in {"envelope", "msgjson"}, m \in {"", "boom"}}

Statuses == {200, 399, 400, 500}

StatusTexts == {"", "Bad"}

Responses ==
  {Response(s, st, b) : s \in Statuses, st \in StatusTexts, b \in Bodies}

(* A URL, by the two tests isApiMessagesUrl makes of it. *)
Urls == [startsWithBase : BOOLEAN, hasMessages : BOOLEAN]

(* isApiMessagesUrl(url) *)
IsApiMessagesUrl(url) == url.startsWithBase /\ url.hasMessages

(* shouldCaptureApiErrors(url) *)
ShouldCaptureApiErrors(url) == IsApiMessagesUrl(url)

(* The status text whatever the body holds. *)
ErrorMessageStatusOnly(resp) == resp.statusText

(* The message logResponse stores for a response (lines 756-787). *)
ErrorMessageOf(resp) ==
  LET b == resp.body
  IN CASE b.kind = "unreadable" -> resp.statusText
       [] b.kind = "empty" -> resp.statusText
       [] b.kind = "text" -> b.msg
       [] b.kind = "jsonnull" -> "null"
       [] b.kind = "envelope" -> IF b.msg # "" THEN b.msg ELSE resp.statusText
       [] b.kind = "msgjson" -> IF b.msg # "" THEN b.msg ELSE resp.statusText
       [] OTHER -> resp.statusText

(* The capture test without the URL test. *)
CapturesAnyUrl(resp, url) == resp.status >= 400

(* Whether logResponse writes the cache for this response (line 751). *)
Captures(resp, url) == ShouldCaptureApiErrors(url) /\ resp.status >= 400

(* The record logResponse stores at time t. *)
CapturedError(resp, t) ==
  LastApiError(resp.status, resp.statusText, ErrorMessageOf(resp), t)

(* A recorder that removes the cache file on a response it does not        *)
(* capture.                                                                *)
LogResponseClearing(f, resp, url, t) ==
  IF Captures(resp, url) THEN SetStoredError(f, CapturedError(resp, t))
  ELSE ClearLastApiError(f)

(* logResponse(response, url, startTime): the file system after. *)
LogResponse(f, resp, url, t) ==
  IF Captures(resp, url) THEN SetStoredError(f, CapturedError(resp, t)) ELSE f

----------------------------------------------------------------------------
(* Spec: one process.  The recorder, the reader and the clear run to       *)
(* completion; the clock advances between them.                            *)

TickSteps == {1, MAX_ERROR_AGE_MS - 1, MAX_ERROR_AGE_MS}

(* What the file holds, as getStoredError would read it. *)
Stored(f) == IF ExistsSync(f) THEN JsonParse(ReadFileSync(f)) ELSE Null

SeqLog(op, pre, res, ticks) ==
  [op |-> op, pre |-> pre, res |-> res, ticks |-> ticks]

NoLocals == [fd |-> NoInode, rec |-> Null, ino |-> NoInode]

RaceIdle ==
  /\ pc = [p \in Procs |-> "idle"]
  /\ loc = [p \in Procs |-> NoLocals]
  /\ hist = [ops |-> 0, ticks |-> 0, recs |-> {}, nrec |-> 0,
             reads |-> << >>, writes |-> << >>]

IdleCall(n) == [pc |-> "idle", n |-> n]

FetchIdle == call = IdleCall(0)

(* No call of a translation function has been made. *)
NoCall == [made |-> FALSE]

(* The profile store before it is first loaded. *)
NoProfiles ==
  [loaded |-> FALSE, profiles |-> << >>, activeId |-> "",
   last |-> [op |-> "none", id |-> "", ret |-> FALSE, before |-> << >>]]

(* No logResponse call is in flight. *)
NoLog == [pc |-> "idle"]

Init ==
  /\ fs = EmptyFs
  /\ now = 0
  /\ seqlog = SeqLog("init", Null, Null, 0)
  /\ pend = [rec |-> Null, reads |-> 0]
  /\ RaceIdle
  /\ FetchIdle
  /\ asm = NoCall
  /\ conv = << >>
  /\ fwd = NoCall
  /\ sch = NoCall
  /\ greq = NoCall
  /\ prof = NoProfiles
  /\ logr = NoLog

(* logResponse on a response of a call to url. *)
Log(resp, url) ==
  /\ fs' = LogResponse(fs, resp, url, now)
  /\ seqlog' = SeqLog("log", Stored(fs), [success |-> resp.status < 400],
                      seqlog.ticks)
  /\ pend' = IF Captures(resp, url)
             THEN [rec |-> CapturedError(resp, now), reads |-> 0]
             ELSE pend
  /\ UNCHANGED <<now, pc, loc, hist, call, xl>>

(* getLastApiError() *)
Get ==
  LET r == GetLastApiError(fs, now)
  IN /\ fs' = r.fs
     /\ seqlog' = SeqLog("get", Stored(fs), r.error, seqlog.ticks)
     /\ pend' = [pend EXCEPT !.reads = IF @ < 2 THEN @ + 1 ELSE @]
     /\ UNCHANGED <<now, pc, loc, hist, call, xl>>

(* clearLastApiError() *)
Clear ==
  /\ fs' = ClearLastApiError(fs)
  /\ seqlog' = SeqLog("clear", Stored(fs), Null, seqlog.ticks)
  /\ pend' = [rec |-> Null, reads |-> 0]
  /\ UNCHANGED <<now, pc, loc, hist, call, xl>>

(* Time passes. *)
Tick ==
  /\ seqlog.ticks < MaxTicks
  /\ \E d \in TickSteps : now' = now + d
  /\ seqlog' = SeqLog("tick", Stored(fs), Null, seqlog.ticks + 1)
  /\ UNCHANGED <<fs, pend, pc, loc, hist, call, xl>>

Next ==
  \/ \E resp \in Responses, url \in Urls : Log(resp, url)
  \/ Get
  \/ Clear
  \/ Tick

Spec == Init /\ [][Next]_vars

(* C1: after a record of E with no later setStoredError call, the first    *)
(* getLastApiError inside the window returns E and every later one         *)
(* returns absent.                                                         *)
PopOnce ==
  (seqlog.op = "get" /\ pend.rec # Null) =>
    /\ (pend.reads = 1 /\ now - pend.rec.timestamp < MAX_ERROR_AGE_MS)
         => seqlog.res = pend.rec
    /\ pend.reads = 2 => seqlog.res = Null

(* A second read inside the window comes back absent. *)
PopOnceWitness ==
  /\ seqlog.op = "get"
  /\ pend.rec # Null
  /\ pend.reads = 2
  /\ now - pend.rec.timestamp < MAX_ERROR_AGE_MS
  /\ seqlog.res = Null

(* C3: getLastApiError never returns an error whose age has reached the    *)
(* window, and returns a stored error younger than the window on the       *)
(* first read.                                                             *)
Expiry ==
  seqlog.op = "get" =>
    /\ seqlog.res # Null => now - seqlog.res.timestamp < MAX_ERROR_AGE_MS
    /\ (seqlog.pre \notin {Null, ParseError}
          /\ now - seqlog.pre.timestamp < MAX_ERROR_AGE_MS)
         => seqlog.res = seqlog.pre

(* A read of an error exactly as old as the window comes back absent, and  *)
(* the file is gone.                                                       *)
ExpiryWitness ==
  /\ seqlog.op = "get"
  /\ seqlog.pre \notin {Null, ParseError}
  /\ now - seqlog.pre.timestamp = MAX_ERROR_AGE_MS
  /\ seqlog.res = Null
  /\ ~ExistsSync(fs)

(* C36: logResponse of a response with status below 400 leaves the cache   *)
(* as it was, and an error recorded before it that has not been read,      *)
(* cleared or overwritten and is younger than the window is what the next  *)
(* getLastApiError returns.                                                *)
SuccessKeepsError ==
  (seqlog.op = "log" /\ seqlog.res.success) =>
    /\ Stored(fs) = seqlog.pre
    /\ (pend.rec # Null /\ pend.reads = 0
          /\ now - pend.rec.timestamp < MAX_ERROR_AGE_MS)
         => GetLastApiError(fs, now).error = pend.rec

(* A success was logged some time after an error was recorded, and the     *)
(* error is still the one a read would return.                             *)
SuccessKeepsErrorWitness ==
  /\ seqlog.op = "log"
  /\ seqlog.res.success
  /\ pend.rec # Null
  /\ pend.reads = 0
  /\ 0 < now - pend.rec.timestamp
  /\ now - pend.rec.timestamp < MAX_ERROR_AGE_MS
  /\ Stored(fs) = pend.rec
  /\ GetLastApiError(fs, now).error = pend.rec

----------------------------------------------------------------------------
(* SpecRace: several OS processes share ERROR_FILE.  A process records an  *)
(* error (logResponse -> setStoredError -> writeFileSync: open with        *)
(* truncation, then write) or reads it (getLastApiError -> getStoredError: *)
(* existsSync, readFileSync and JSON.parse, unlinkSync); any other process *)
(* may run between two file-system calls.                                  *)

MaxRaceTicks == 1

RaceResponses ==
  {Response(500, "", Body("text", "boom")), Response(400, "", Body("empty", ""))}

MatchingUrl == [startsWithBase |-> TRUE, hasMessages |-> TRUE]

OpenFds == {loc[p].fd : p \in Procs} \ {NoInode}

OtherFds(p) == {loc[q].fd : q \in Procs \ {p}} \ {NoInode}

(* What a finished getLastApiError call did: the value returned, the       *)
(* inode it read (NoInode: none), whether the content parsed, the inode    *)
(* linked at ERROR_FILE when it returned, and its unlink: the record it    *)
(* had read, what the file held when it was unlinked, and the processes    *)
(* that had read that content and not yet unlinked (NoPop: no unlink).     *)
ReadDone(p, res, ino, parsed, f, pop) ==
  [proc |-> p, res |-> res, ino |-> ino, parsed |-> parsed, after |-> f.path,
   pop |-> pop]

NoPop == [rec |-> Null, popped |-> Null, held |-> {}]

Return(p, res, ino, parsed, f, pop) ==
  /\ pc' = [pc EXCEPT ![p] = "idle"]
  /\ loc' = [loc EXCEPT ![p] = NoLocals]
  /\ hist' = [hist EXCEPT !.reads = Append(@, ReadDone(p, res, ino, parsed, f, pop))]

(* logResponse of an error response of the matching endpoint, up to and    *)
(* including the open of writeFileSync.                                    *)
WOpen(p, resp) ==
  /\ pc[p] = "idle"
  /\ hist.ops < MaxOps
  /\ Captures(resp, MatchingUrl)
  /\ fs' = OpenTrunc(fs, OpenFds)
  /\ loc' = [loc EXCEPT ![p] = [fd |-> OpenTruncFd(fs, OpenFds),
                                rec |-> CapturedError(resp, now),
                                ino |-> NoInode]]
  /\ pc' = [pc EXCEPT ![p] = "w_write"]
  /\ hist' = [hist EXCEPT !.ops = @ + 1, !.nrec = @ + 1,
                          !.recs = @ \cup {CapturedError(resp, now)}]
  /\ UNCHANGED <<now, seqlog, pend, call, xl>>

(* The write and the close of writeFileSync. *)
WWrite(p) ==
  /\ pc[p] = "w_write"
  /\ fs' = CloseFd(WriteAtZero(fs, loc[p].fd, JsonStringify(loc[p].rec)),
                   OtherFds(p))
  /\ pc' = [pc EXCEPT ![p] = "idle"]
  /\ loc' = [loc EXCEPT ![p] = NoLocals]
  /\ hist' = [hist EXCEPT !.writes = Append(@, loc[p].rec)]
  /\ UNCHANGED <<now, seqlog, pend, call, xl>>

(* getLastApiError: existsSync (line 57). *)
RExists(p) ==
  /\ pc[p] = "idle"
  /\ hist.ops < MaxOps
  /\ IF ExistsSync(fs)
     THEN /\ pc' = [pc EXCEPT ![p] = "r_read"]
          /\ hist' = [hist EXCEPT !.ops = @ + 1]
          /\ loc' = loc
     ELSE /\ pc' = pc
          /\ loc' = loc
          /\ hist' = [hist EXCEPT
                 !.ops = @ + 1,
                 !.reads = Append(@, ReadDone(p, Null, NoInode, FALSE, fs, NoPop))]
  /\ UNCHANGED <<fs, now, seqlog, pend, call, xl>>

(* readFileSync and JSON.parse (lines 58-59); either may throw, and the    *)
(* outer catch returns null.                                               *)
RRead(p) ==
  /\ pc[p] = "r_read"
  /\ IF ~ExistsSync(fs)
     THEN Return(p, Null, NoInode, FALSE, fs, NoPop)
     ELSE LET error == JsonParse(ReadFileSync(fs))
          IN IF error = ParseError
             THEN Return(p, Null, fs.path, FALSE, fs, NoPop)
             ELSE /\ pc' = [pc EXCEPT ![p] = "r_unlink"]
                  /\ loc' = [loc EXCEPT ![p].rec = error, ![p].ino = fs.path]
                  /\ hist' = hist
  /\ UNCHANGED <<fs, now, seqlog, pend, call, xl>>

(* unlinkSync (lines 61-66), then the age test of getLastApiError. *)
RUnlink(p) ==
  /\ pc[p] = "r_unlink"
  /\ fs' = PopFile(fs, OpenFds)
  /\ Return(p, IF IsFresh(loc[p].rec, now) THEN loc[p].rec ELSE Null,
            loc[p].ino, TRUE, fs',
            [rec |-> loc[p].rec, popped |-> Stored(fs),
             held |-> {q \in Procs \ {p} :
                         pc[q] = "r_unlink" /\ loc[q].rec = Stored(fs)}])
  /\ UNCHANGED <<now, seqlog, pend, call, xl>>

(* Time passes: a whole window. *)
RaceTick ==
  /\ hist.ticks < MaxRaceTicks
  /\ now' = now + MAX_ERROR_AGE_MS
  /\ hist' = [hist EXCEPT !.ticks = @ + 1]
  /\ UNCHANGED <<fs, seqlog, pend, pc, loc, call, xl>>

NextRace ==
  \/ \E p \in Procs, resp \in RaceResponses : WOpen(p, resp)
  \/ \E p \in Procs : WWrite(p)
  \/ \E p \in Procs : RExists(p)
  \/ \E p \in Procs : RRead(p)
  \/ \E p \in Procs : RUnlink(p)
  \/ RaceTick

SpecRace == Init /\ [][NextRace]_vars

(* The finished reads that returned an error. *)
Consumed == {i \in DOMAIN hist.reads : hist.reads[i].res # Null}

(* C2: after a single record, at most one getLastApiError call returns     *)
(* the error, whatever the interleaving.                                   *)
AtMostOneConsumer == hist.nrec = 1 => Cardinality(Consumed) <= 1

(* C4: a getLastApiError call that read the error file leaves no file     *)
(* behind, whatever it returns: the error, absent for an expired error,    *)
(* or absent for content that could not be parsed.                         *)
DeleteUnconditional ==
  \A i \in DOMAIN hist.reads :
    hist.reads[i].ino # NoInode => hist.reads[i].after = NoInode

(* What getStoredError does instead: a call that read and parsed the file  *)
(* leaves no file behind, whether it returns the error or absent; a call   *)
(* that could not parse the content returns absent and leaves that file    *)
(* in place.                                                               *)
DeleteWhenParsed ==
  \A i \in DOMAIN hist.reads :
    LET r == hist.reads[i]
    IN /\ r.parsed => r.after = NoInode
       /\ (r.ino # NoInode /\ ~r.parsed) => (r.after = r.ino /\ r.res = Null)

(* A call parsed an expired error, returned absent and deleted the file.   *)
DeleteWhenParsedWitness ==
  \E i \in DOMAIN hist.reads :
    /\ hist.reads[i].parsed
    /\ hist.reads[i].res = Null
    /\ hist.reads[i].after = NoInode

AllIdle == \A p \in Procs : pc[p] = "idle"

(* C5: every value returned is the complete record of one record call,     *)
(* and once all writers have finished with no read in between the file     *)
(* holds the record of the write that completed last.                      *)
LastWriteWins ==
  /\ \A i \in Consumed : hist.reads[i].res \in hist.recs
  /\ (AllIdle /\ hist.reads = << >> /\ hist.writes # << >>)
       => Stored(fs) = hist.writes[Len(hist.writes)]

(* The record calls of the error e: those finished and those in flight. *)
TimesRecorded(e) ==
  Cardinality({k \in DOMAIN hist.writes : hist.writes[k] = e})
    + Cardinality({p \in Procs : pc[p] = "w_write" /\ loc[p].rec = e})

(* The finished reads whose delete removed a record that landed after      *)
(* their read: the read parsed a record E1 and its unlink removed the      *)
(* file when it held another complete record E2, recorded once.            *)
Raced ==
  {i \in DOMAIN hist.reads :
     /\ hist.reads[i].parsed
     /\ hist.reads[i].pop.popped \notin {Null, ParseError, hist.reads[i].pop.rec}
     /\ TimesRecorded(hist.reads[i].pop.popped) = 1}

(* The reader returns E1, or absent when E1 has expired; the file is gone. *)
RacedReadReturnsFirst(i) ==
  LET r == hist.reads[i]
  IN /\ r.res = r.pop.rec \/ (r.res = Null /\ ~IsFresh(r.pop.rec, now))
     /\ r.after = NoInode

(* The finished reads other than i that returned the record i removed. *)
ReturnedPopped(i) ==
  {j \in DOMAIN hist.reads \ {i} : hist.reads[j].res = hist.reads[i].pop.popped}

----------------------------------------------------------------------------
(* JavaScript values as the translation functions see them.  A value       *)
(* carries its typeof tag; an object is its own properties in insertion    *)
(* order, each a <<key, value>> pair.                                      *)

Undefined == [t |-> "undefined"]
JNull == [t |-> "null"]
JStr(s) == [t |-> "string", s |-> s]
JNum(n) == [t |-> "number", n |-> n]
JObj(m) == [t |-> "object", m |-> m]
JArr(a) == [t |-> "array", a |-> a]
EmptyObject == JObj(<< >>)

(* JSON text, as a sequence of tokens. *)
OpenBrace == [tok |-> "{"]
CloseBrace == [tok |-> "}"]
KeyToken(k) == [tok |-> "key", k |-> k]
ValueToken(v) == [tok |-> "value", v |-> v]

RECURSIVE StringifyJson(_), StringifyMembers(_)

(* JSON.stringify(value): a member whose value is undefined is left out. *)
StringifyJson(v) ==
  IF v.t = "object"
  THEN <<OpenBrace>> \o StringifyMembers(v.m) \o <<CloseBrace>>
  ELSE <<ValueToken(v)>>

StringifyMembers(m) ==
  IF m = << >> THEN << >>
  ELSE IF m[1][2] = Undefined THEN StringifyMembers(Tail(m))
  ELSE <<KeyToken(m[1][1])>> \o StringifyJson(m[1][2]) \o StringifyMembers(Tail(m))

(* obj[k] = v on the members of an object: an existing key keeps its place. *)
SetMember(m, k, v) ==
  IF \E i \in DOMAIN m : m[i][1] = k
  THEN [i \in DOMAIN m |-> IF m[i][1] = k THEN <<k, v>> ELSE m[i]]
  ELSE Append(m, <<k, v>>)

ParseFailed == [ok |-> FALSE]

RECURSIVE ParseValue(_), ParseMembers(_, _)

ParseValue(toks) ==
  IF toks = << >> THEN ParseFailed
  ELSE LET h == Head(toks)
       IN IF h.tok = "value" THEN [ok |-> TRUE, val |-> h.v, rest |-> Tail(toks)]
          ELSE IF h.tok = "{" THEN ParseMembers(Tail(toks), << >>)
          ELSE ParseFailed

ParseMembers(toks, acc) ==
  IF toks = << >> THEN ParseFailed
  ELSE LET h == Head(toks)
       IN IF h.tok = "}" THEN [ok |-> TRUE, val |-> JObj(acc), rest |-> Tail(toks)]
          ELSE IF h.tok = "key"
               THEN LET r == ParseValue(Tail(toks))
                    IN IF r.ok THEN ParseMembers(r.rest, SetMember(acc, h.k, r.val))
                       ELSE ParseFailed
          ELSE ParseFailed

(* JSON.parse(text): the value, or ParseError when the text is not one     *)
(* complete JSON value.                                                    *)
ParseJson(toks) ==
  LET r == ParseValue(toks)
  IN IF r.ok /\ r.rest = << >> THEN r.val ELSE ParseError

----------------------------------------------------------------------------
(* The response assembler and the stream synthesizer:                      *)
(* geminiFinishReasonToStopReason, geminiToAnthropicContentBlocks and      *)
(* buildAnthropicMessageFromGeminiResponse.  randomUUID() is an input: the *)
(* values it returns, in call order.                                       *)

MaxParts == 2

(* String.prototype.toUpperCase on the finish reasons drawn below. *)
ToUpperCase(s) ==
  CASE s = "max_tokens" -> "MAX_TOKENS"
    [] s = "Safety" -> "SAFETY"
    [] OTHER -> s

(* The tool-use test left out. *)
FinishReasonOnly(reason, hasToolUse) ==
  LET r == IF reason.t = "string" THEN ToUpperCase(reason.s) ELSE ""
  IN IF r = "MAX_TOKENS" THEN "max_tokens"
     ELSE IF r = "SAFETY" THEN "stop_sequence"
     ELSE "end_turn"

(* geminiFinishReasonToStopReason(reason, hasToolUse) *)
GeminiFinishReasonToStopReason(reason, hasToolUse) ==
  LET r == IF reason.t = "string" THEN ToUpperCase(reason.s) ELSE ""
  IN IF hasToolUse THEN "tool_use"
     ELSE IF r = "MAX_TOKENS" THEN "max_tokens"
     ELSE IF r = "SAFETY" THEN "stop_sequence"
     ELSE "end_turn"

TextBlock(text) == [type |-> "text", text |-> text]

ToolUseBlock(id, name, input) ==
  [type |-> "tool_use", id |-> id, name |-> name, input |-> input]

(* `toolu_${randomUUID()}` and `msg_${randomUUID()}` *)
ToolUseId(uuid) == [prefix |-> "toolu_", uuid |-> uuid]
MessageId(uuid) == [prefix |-> "msg_", uuid |-> uuid]

(* A part of the candidate's content: obj is whether it is a non-null      *)
(* object; functionCall is Undefined or [name, args].                      *)
GeminiPart(obj, text, functionCall) ==
  [obj |-> obj, text |-> text, functionCall |-> functionCall]

FunctionCall(name, args) == [name |-> name, args |-> args]

RECURSIVE BlocksOfParts(_, _)

(* The loop of geminiToAnthropicContentBlocks (lines 509-526). *)
BlocksOfParts(parts, uuids) ==
  IF parts = << >> THEN << >>
  ELSE LET p == Head(parts)
       IN IF ~p.obj THEN BlocksOfParts(Tail(parts), uuids)
          ELSE IF p.text.t = "string"
               THEN <<TextBlock(p.text.s)>> \o BlocksOfParts(Tail(parts), uuids)
          ELSE IF p.functionCall # Undefined /\ p.functionCall.name.t = "string"
               THEN <<ToolUseBlock(ToolUseId(Head(uuids)), p.functionCall.name.s,
                                   IF p.functionCall.args.t = "object"
                                   THEN p.functionCall.args ELSE EmptyObject)>>
                      \o BlocksOfParts(Tail(parts), Tail(uuids))
          ELSE BlocksOfParts(Tail(parts), uuids)

(* geminiToAnthropicContentBlocks(geminiContent); the content is Undefined *)
(* or holds a parts array.                                                 *)
GeminiToAnthropicContentBlocks(geminiContent, uuids) ==
  IF geminiContent = Undefined THEN << >>
  ELSE BlocksOfParts(geminiContent.parts, uuids)

HasToolUse(blocks) == \E i \in DOMAIN blocks : blocks[i].type = "tool_use"

NumToolUse(blocks) == Cardinality({i \in DOMAIN blocks : blocks[i].type = "tool_use"})

(* typeof x === 'number' ? x : 0 (lines 541-542) *)
TokenCount(usage, field) ==
  IF usage # Undefined /\ usage[field].t = "number" THEN usage[field].n ELSE 0

(* pushEvent(event, data) (lines 567-570): an event line and a data line. *)
PushEvent(events, event, data) ==
  events \o <<[line |-> "event", name |-> event], [line |-> "data", json |-> data]>>

(* The delta of a tool-use block with an empty input. *)
InputJsonDeltaEmpty(input) ==
  [type |-> "input_json_delta", partial_json |-> StringifyJson(EmptyObject)]

(* { type: 'input_json_delta', partial_json: JSON.stringify(input) } *)
InputJsonDelta(input) ==
  [type |-> "input_json_delta", partial_json |-> StringifyJson(input)]

(* The frames of a block without the closing one. *)
PushBlockEventsNoStop(events, block, i) ==
  PushEvent(
    PushEvent(events, "content_block_start",
      [type |-> "content_block_start", index |-> i,
       content_block |-> TextBlock("")]),
    "content_block_delta",
    [type |-> "content_block_delta", index |-> i,
     delta |-> [type |-> "text_delta", text |-> ""]])

(* The body of the loop of lines 574-587 for block i. *)
PushBlockEvents(events, block, i) ==
  IF block.type = "text"
  THEN PushEvent(
         PushEvent(
           PushEvent(events, "content_block_start",
             [type |-> "content_block_start", index |-> i,
              content_block |-> TextBlock("")]),
           "content_block_delta",
           [type |-> "content_block_delta", index |-> i,
            delta |-> [type |-> "text_delta", text |-> block.text]]),
         "content_block_stop", [type |-> "content_block_stop", index |-> i])
  ELSE PushEvent(
         PushEvent(
           PushEvent(events, "content_block_start",
             [type |-> "content_block_start", index |-> i,
              content_block |-> ToolUseBlock(block.id, block.name, EmptyObject)]),
           "content_block_delta",
           [type |-> "content_block_delta", index |-> i,
            delta |-> InputJsonDelta(block.input)]),
         "content_block_stop", [type |-> "content_block_stop", index |-> i])

RECURSIVE PushAllBlockEvents(_, _, _)

(* for (let i = 0; i < blocks.length; i++) (line 574) *)
PushAllBlockEvents(events, blocks, i) ==
  IF i >= Len(blocks) THEN events
  ELSE PushAllBlockEvents(PushBlockEvents(events, blocks[i + 1], i), blocks, i + 1)

(* buildAnthropicMessageFromGeminiResponse(geminiJson, requestedModel,     *)
(* The last element of candidates. *)
LastCandidate(geminiJson) ==
  IF geminiJson.candidates.t = "array" /\ geminiJson.candidates.a # << >>
  THEN geminiJson.candidates.a[Len(geminiJson.candidates.a)] ELSE Undefined

(* Array.isArray(geminiJson?.candidates) ? geminiJson.candidates[0] :      *)
(* undefined (line 534)                                                    *)
FirstCandidate(geminiJson) ==
  IF geminiJson.candidates.t = "array" /\ geminiJson.candidates.a # << >>
  THEN geminiJson.candidates.a[1] ELSE Undefined

(* streamRequested): [message, streamEvents].                              *)
BuildAnthropicMessageFromGeminiResponse(geminiJson, requestedModel, streamRequested, uuids) ==
  LET candidate == FirstCandidate(geminiJson)
      content == IF candidate = Undefined THEN Undefined ELSE candidate.content
      finishReason == IF candidate = Undefined THEN Undefined ELSE candidate.finishReason
      blocks == GeminiToAnthropicContentBlocks(content, uuids)
      stopReason == GeminiFinishReasonToStopReason(finishReason, HasToolUse(blocks))
      usage == geminiJson.usageMetadata
      inputTokens == TokenCount(usage, "promptTokenCount")
      outputTokens == TokenCount(usage, "candidatesTokenCount")
      message ==
        [id |-> MessageId(uuids[NumToolUse(blocks) + 1]),
         type |-> "message",
         role |-> "assistant",
         model |-> requestedModel,
         content |-> blocks,
         stop_reason |-> JStr(stopReason),
         stop_sequence |-> JNull,
         usage |-> [input_tokens |-> inputTokens, output_tokens |-> outputTokens]]
      streamStartMessage ==
        [message EXCEPT !.content = << >>, !.stop_reason = JNull]
      started == PushEvent(<< >>, "message_start",
                   [type |-> "message_start", message |-> streamStartMessage])
      blocked == PushAllBlockEvents(started, blocks, 0)
      closing == PushEvent(blocked, "message_delta",
                   [type |-> "message_delta",
                    delta |-> [stop_reason |-> JStr(stopReason), stop_sequence |-> JNull],
                    usage |-> [output_tokens |-> outputTokens]])
      events == PushEvent(closing, "message_stop", [type |-> "message_stop"])
  IN IF ~streamRequested
     THEN [message |-> message, streamEvents |-> Undefined]
     ELSE [message |-> message, streamEvents |-> events]

(* The inputs of SpecAssemble. *)
GeminiParts ==
  { GeminiPart(FALSE, Undefined, Undefined),
    GeminiPart(TRUE, Undefined, Undefined),
    GeminiPart(TRUE, JStr("hi"), Undefined),
    GeminiPart(TRUE, JStr(""), FunctionCall(JStr("f"), EmptyObject)),
    GeminiPart(TRUE, Undefined, FunctionCall(JStr("f"), Undefined)),
    GeminiPart(TRUE, Undefined, FunctionCall(JNum(1), EmptyObject)),
    GeminiPart(TRUE, Undefined,
      FunctionCall(JStr("g"),
        JObj(<< <<"q", JStr("x")>>, <<"o", JObj(<< <<"n", JNum(1)>>, <<"z", JNull>> >>)>> >>))) }

PartLists == UNION {[1..n -> GeminiParts] : n \in 0..MaxParts}

GeminiContents == {Undefined} \cup {[parts |-> ps] : ps \in PartLists}

FinishReasons ==
  {Undefined, JNum(1), JStr("STOP"), JStr("MAX_TOKENS"), JStr("max_tokens"),
   JStr("SAFETY"), JStr("Safety")}

GeminiCandidates == [content : GeminiContents, finishReason : FinishReasons]

UsageMetadata ==
  {Undefined,
   [promptTokenCount |-> JNum(7), candidatesTokenCount |-> JNum(5)],
   [promptTokenCount |-> JStr("7"), candidatesTokenCount |-> Undefined]}

(* The candidates that follow the first: none, one with a function call,   *)
(* or two.                                                                 *)
CandidateTails ==
  LET called == [content |-> [parts |-> <<GeminiPart(TRUE, Undefined,
                                           FunctionCall(JStr("h"), EmptyObject))>>],
                 finishReason |-> JStr("MAX_TOKENS")]
      blocked == [content |-> Undefined, finishReason |-> JStr("SAFETY")]
  IN {<< >>, <<called>>, <<blocked, called>>}

GeminiJsons ==
  [candidates : {Undefined, JArr(<< >>)}
                  \cup {JArr(<<c>> \o tail) : c \in GeminiCandidates, tail \in CandidateTails},
   usageMetadata : UsageMetadata]

RequestedModels == {"models/gemini-2.0-flash"}

(* What randomUUID() returns, call after call. *)
UuidDraws == {[i \in 1..(MaxParts + 1) |-> i], [i \in 1..(MaxParts + 1) |-> MaxParts + 2 - i]}

(* SpecAssemble: one call of buildAnthropicMessageFromGeminiResponse; the  *)
(* function keeps no state, so a behaviour makes one call.                 *)
Assemble(geminiJson, requestedModel, streamRequested, uuids) ==
  /\ ~asm.made
  /\ asm' = [made |-> TRUE, geminiJson |-> geminiJson,
             requestedModel |-> requestedModel,
             streamRequested |-> streamRequested,
             result |-> BuildAnthropicMessageFromGeminiResponse(
                          geminiJson, requestedModel, streamRequested, uuids)]
  /\ UNCHANGED <<fs, now, seqlog, pend, pc, loc, hist, call, conv, fwd, sch, yl>>

NextAssemble ==
  ~asm.made /\ \E g \in GeminiJsons, m \in RequestedModels, s \in BOOLEAN, u \in UuidDraws :
    Assemble(g, m, s, u)

SpecAssemble == Init /\ [][NextAssemble]_vars

(* The frames of a stream: frame k is the k-th event line with its data. *)
Frames(events) ==
  [k \in 1..(Len(events) \div 2) |->
     [event |-> events[2 * k - 1].name, data |-> events[2 * k].json]]

(* What the k-th of the 3n+3 frames must be: its event and block index     *)
(* (-1: not a block frame).                                                *)
ExpectedFrame(k, n) ==
  IF k = 1 THEN [event |-> "message_start", index |-> -1]
  ELSE IF k = 3 * n + 2 THEN [event |-> "message_delta", index |-> -1]
  ELSE IF k = 3 * n + 3 THEN [event |-> "message_stop", index |-> -1]
  ELSE [event |-> CASE (k - 2) % 3 = 0 -> "content_block_start"
                    [] (k - 2) % 3 = 1 -> "content_block_delta"
                    [] OTHER -> "content_block_stop",
        index |-> (k - 2) \div 3]

FrameIndex(frame) ==
  IF frame.event \in {"content_block_start", "content_block_delta", "content_block_stop"}
  THEN frame.data.index ELSE -1

Streamed == asm.made /\ asm.streamRequested

(* C11: the stream of a message with n blocks is message_start, then for   *)
(* each block in ascending order its start, delta and stop frames carrying *)
(* the block's index, then message_delta, then message_stop: 3n+3 frames,  *)
(* each an event line followed by a data line of the same type.            *)
StreamFrameOrder ==
  Streamed =>
    LET n == Len(asm.result.message.content)
        events == asm.result.streamEvents
        frames == Frames(events)
    IN /\ Len(events) = 2 * (3 * n + 3)
       /\ \A j \in DOMAIN events :
            events[j].line = (IF j % 2 = 1 THEN "event" ELSE "data")
       /\ \A k \in DOMAIN frames :
            /\ frames[k].event = ExpectedFrame(k, n).event
            /\ frames[k].data.type = frames[k].event
            /\ FrameIndex(frames[k]) = ExpectedFrame(k, n).index

(* A stream of a text block followed by a tool-use block: 9 frames. *)
StreamFrameOrderWitness ==
  /\ Streamed
  /\ Len(asm.result.message.content) = 2
  /\ asm.result.message.content[1].type = "text"
  /\ asm.result.message.content[2].type = "tool_use"
  /\ Len(Frames(asm.result.streamEvents)) = 9

(* The consumer of a stream: the message under construction and the        *)
(* number of deltas seen for each block.                                   *)
ReplayStart == [message |-> Undefined, deltas |-> << >>, ok |-> TRUE]

ReplayFrame(r, d) ==
  CASE d.type = "message_start" ->
         [r EXCEPT !.message = d.message]
    [] d.type = "content_block_start" ->
         IF r.message # Undefined /\ d.index = Len(r.message.content)
         THEN [r EXCEPT !.message.content = Append(@, d.content_block),
                        !.deltas = Append(@, 0)]
         ELSE [r EXCEPT !.ok = FALSE]
    [] d.type = "content_block_delta" ->
         IF r.message # Undefined /\ d.index + 1 = Len(r.message.content)
         THEN LET b == r.message.content[d.index + 1]
              IN IF b.type = "text" /\ d.delta.type = "text_delta"
                 THEN [r EXCEPT !.message.content[d.index + 1].text = @ \o d.delta.text,
                                !.deltas[d.index + 1] = @ + 1]
                 ELSE IF b.type = "tool_use" /\ d.delta.type = "input_json_delta"
                 THEN [r EXCEPT !.message.content[d.index + 1].input =
                                    ParseJson(d.delta.partial_json),
                                !.deltas[d.index + 1] = @ + 1]
                 ELSE [r EXCEPT !.ok = FALSE]
         ELSE [r EXCEPT !.ok = FALSE]
    [] d.type = "message_delta" ->
         IF r.message # Undefined
         THEN [r EXCEPT !.message.stop_reason = d.delta.stop_reason]
         ELSE [r EXCEPT !.ok = FALSE]
    [] OTHER -> r

RECURSIVE ReplayFrom(_, _)

ReplayFrom(frames, r) ==
  IF frames = << >> THEN r
  ELSE ReplayFrom(Tail(frames), ReplayFrame(r, Head(frames).data))

Replay(events) == ReplayFrom(Frames(events), ReplayStart)

(* C12: replaying the frames rebuilds the assembled message (id, role,     *)
(* model, blocks in order with their text, tool-use id, name and input,    *)
(* stop_reason, usage), and every block got exactly one delta.             *)
StreamRoundTrip ==
  Streamed =>
    LET r == Replay(asm.result.streamEvents)
    IN /\ r.ok
       /\ r.message = asm.result.message
       /\ Len(r.deltas) = Len(asm.result.message.content)
       /\ \A i \in DOMAIN r.deltas : r.deltas[i] = 1

(* A tool-use block with a nested input came back whole from its delta. *)
StreamRoundTripWitness ==
  /\ Streamed
  /\ \E i \in DOMAIN asm.result.message.content :
       LET b == asm.result.message.content[i]
       IN /\ b.type = "tool_use"
          /\ b.input # EmptyObject
          /\ Replay(asm.result.streamEvents).message.content[i].input = b.input

(* The finish signal of the first candidate, Undefined when there is none. *)
FinishSignal(g) ==
  IF g.candidates.t = "array" /\ g.candidates.a # << >>
  THEN g.candidates.a[1].finishReason ELSE Undefined

SignalIs(signal, name) == signal.t = "string" /\ signal.s = name

SignalIsAnyCase(signal, name) == signal.t = "string" /\ ToUpperCase(signal.s) = name

StopReason == asm.result.message.stop_reason.s

(* C13, as claimed: tool_use when the content has a tool-use block;        *)
(* otherwise max_tokens for the signal MAX_TOKENS, stop_sequence for       *)
(* SAFETY, end_turn for every other or missing signal.                     *)
StopReasonExact ==
  asm.made =>
    LET s == FinishSignal(asm.geminiJson)
    IN IF HasToolUse(asm.result.message.content) THEN StopReason = "tool_use"
       ELSE IF SignalIs(s, "MAX_TOKENS") THEN StopReason = "max_tokens"
       ELSE IF SignalIs(s, "SAFETY") THEN StopReason = "stop_sequence"
       ELSE StopReason = "end_turn"

(* C13, amended: the same with the signal compared without regard to       *)
(* letter case: max_tokens for MAX_TOKENS or max_tokens, stop_sequence for *)
(* SAFETY or Safety, end_turn for a signal that is neither, is not a       *)
(* string or is missing.                                                   *)
StopReasonAnyCase ==
  asm.made =>
    LET s == FinishSignal(asm.geminiJson)
    IN IF HasToolUse(asm.result.message.content) THEN StopReason = "tool_use"
       ELSE IF SignalIsAnyCase(s, "MAX_TOKENS") THEN StopReason = "max_tokens"
       ELSE IF SignalIsAnyCase(s, "SAFETY") THEN StopReason = "stop_sequence"
       ELSE StopReason = "end_turn"

(* A tool-use block under the signal MAX_TOKENS: tool_use. *)
StopReasonWitness ==
  /\ asm.made
  /\ HasToolUse(asm.result.message.content)
  /\ SignalIs(FinishSignal(asm.geminiJson), "MAX_TOKENS")
  /\ StopReason = "tool_use"

(* The blocks without the ids randomUUID() gave them. *)
WithoutIds(blocks) ==
  [i \in DOMAIN blocks |->
     IF blocks[i].type = "tool_use"
     THEN [blocks[i] EXCEPT !.id = [prefix |-> "toolu_", uuid |-> 0]]
     ELSE blocks[i]]

(* The replies that agree with geminiJson on candidates[0] and on          *)
(* usageMetadata.                                                          *)
AgreeingOnFirst(geminiJson) ==
  IF FirstCandidate(geminiJson) = Undefined
  THEN {[geminiJson EXCEPT !.candidates = c] : c \in {Undefined, JArr(<< >>)}}
  ELSE {[geminiJson EXCEPT !.candidates = JArr(<<FirstCandidate(geminiJson)>> \o tail)] :
          tail \in CandidateTails}

(* C34: a reply that agrees with the assembled one on candidates[0] and on *)
(* usageMetadata is assembled into the same content blocks up to their     *)
(* ids, the same stop_reason and the same usage.                           *)
OnlyFirstCandidate ==
  asm.made =>
    \A other \in AgreeingOnFirst(asm.geminiJson), uuids \in UuidDraws :
      LET message == BuildAnthropicMessageFromGeminiResponse(
                       other, asm.requestedModel, asm.streamRequested, uuids).message
      IN /\ WithoutIds(message.content) = WithoutIds(asm.result.message.content)
         /\ message.stop_reason = asm.result.message.stop_reason
         /\ message.usage = asm.result.message.usage

(* A reply whose first candidate holds text and stopped, followed by a     *)
(* candidate with a function call cut short, is assembled as the text      *)
(* alone.                                                                  *)
OnlyFirstCandidateWitness ==
  /\ asm.made
  /\ asm.geminiJson.candidates.t = "array"
  /\ Len(asm.geminiJson.candidates.a) = 2
  /\ asm.geminiJson.candidates.a[1].finishReason = JStr("STOP")
  /\ asm.geminiJson.candidates.a[1].content # Undefined
  /\ asm.geminiJson.candidates.a[2].finishReason = JStr("MAX_TOKENS")
  /\ asm.result.message.content = <<TextBlock("hi")>>
  /\ asm.result.message.stop_reason = JStr("end_turn")

----------------------------------------------------------------------------
(* The content mapper: buildGeminiContents.                                *)

(* The turns of a history, the content blocks of a history, and the calls  *)
(* of a behaviour of SpecCalls.                                            *)
MaxTurns == 2
MaxBlocks == 2
MaxBuilds == 2

(* String.prototype.trim on the texts drawn below. *)
Trim(s) ==
  CASE s = " " -> ""
    [] s = " hi " -> "hi"
    [] OTHER -> s

(* Names every object inherits from Object.prototype (constructor,        *)
(* toString, valueOf, hasOwnProperty, ...), by the one drawn below.        *)
ObjectPrototypeKeys == {"constructor"}

(* The inherited member read under such a name: a function. *)
InheritedMember(key) == [t |-> "function", of |-> key]

(* const toolUseIdToName: Record<string, string> = {} (line 423): a fresh  *)
(* table for each call, whatever an earlier call left (prev).              *)
NoToolUses == [id \in {} |-> ""]

(* A table kept from one call to the next. *)
KeptToolUseIdToName(prev) == prev

NewToolUseIdToName(prev) == NoToolUses

(* toolUseIdToName[id] = name (line 444) *)
RegisterNothing(table, id, name) == table

Register(table, id, name) ==
  [k \in DOMAIN table \cup {id} |-> IF k = id THEN name ELSE table[k]]

(* toolUseIdToName[toolUseId] (line 450): an own property, or else what    *)
(* the object inherits under that name.                                    *)
Lookup(table, id) ==
  IF id \in DOMAIN table THEN JStr(table[id])
  ELSE IF id \in ObjectPrototypeKeys THEN InheritedMember(id)
  ELSE Undefined

(* !x for the values a name or a text can be. *)
Falsy(v) == v = Undefined \/ v = JNull \/ v = JStr("")

(* A content block of a message, by the properties the mapper reads;       *)
(* obj is whether it is a non-null object.                                 *)
NoBlock ==
  [obj |-> FALSE, type |-> Undefined, text |-> Undefined, source |-> Undefined,
   name |-> Undefined, id |-> Undefined, input |-> Undefined,
   tool_use_id |-> Undefined, is_error |-> FALSE, content |-> Undefined]

TextIn(text) == [NoBlock EXCEPT !.obj = TRUE, !.type = JStr("text"), !.text = text]

ImageIn(source) == [NoBlock EXCEPT !.obj = TRUE, !.type = JStr("image"), !.source = source]

ToolUseIn(name, id, input) ==
  [NoBlock EXCEPT !.obj = TRUE, !.type = JStr("tool_use"), !.name = name,
                  !.id = id, !.input = input]

ToolResultIn(toolUseId, isError, content) ==
  [NoBlock EXCEPT !.obj = TRUE, !.type = JStr("tool_result"),
                  !.tool_use_id = toolUseId, !.is_error = isError,
                  !.content = content]

Base64Source(mediaType, data) ==
  [type |-> JStr("base64"), media_type |-> mediaType, data |-> data]

(* pushText (lines 435-438) *)
PushText(parts, text) ==
  IF Trim(text) # "" THEN Append(parts, [text |-> Trim(text)]) ELSE parts

(* The parts and the table after one block (lines 467-481, 440-461). *)
PushBlock(st, block) ==
  IF ~block.obj THEN st
  ELSE IF block.type = JStr("text") /\ block.text.t = "string"
       THEN [st EXCEPT !.parts = PushText(@, block.text.s)]
  ELSE IF block.type = JStr("image") /\ block.source # Undefined
            /\ block.source.type = JStr("base64")
       THEN IF block.source.media_type.t = "string" /\ block.source.data.t = "string"
            THEN [st EXCEPT !.parts = Append(@,
                   [inlineData |-> [mimeType |-> block.source.media_type.s,
                                    data |-> block.source.data.s]])]
            ELSE st
  ELSE IF block.type = JStr("tool_use")
       THEN IF block.name.t # "string" \/ block.name.s = "" THEN st
            ELSE [parts |-> Append(st.parts,
                    [functionCall |->
                       [name |-> block.name.s,
                        args |-> IF block.input.t = "object" THEN block.input
                                 ELSE EmptyObject]]),
                  table |-> IF block.id.t = "string" /\ block.id.s # ""
                            THEN Register(st.table, block.id.s, block.name.s)
                            ELSE st.table]
  ELSE IF block.type = JStr("tool_result")
       THEN LET name == IF block.tool_use_id.t = "string"
                        THEN Lookup(st.table, block.tool_use_id.s) ELSE Undefined
            IN IF Falsy(name) THEN st
               ELSE [st EXCEPT !.parts = Append(@,
                      [functionResponse |->
                         [name |-> name,
                          response |-> [error |-> block.is_error,
                                        content |-> block.content]]])]
  ELSE st

RECURSIVE PushBlocks(_, _)

(* for (const block of content) (line 466) *)
PushBlocks(st, blocks) ==
  IF blocks = << >> THEN st
  ELSE PushBlocks(PushBlock(st, Head(blocks)), Tail(blocks))

(* The parts of one message and the table after it (lines 428-483). *)
PartsOfMessage(m, table) ==
  LET st == [parts |-> << >>, table |-> table]
  IN IF ~m.obj THEN st
     ELSE IF m.content.t = "string"
          THEN [st EXCEPT !.parts = PushText(@, m.content.s)]
     ELSE IF m.content.t = "array" THEN PushBlocks(st, m.content.a)
     ELSE st

(* roleRaw === 'assistant' ? 'model' : 'user' (line 430) *)
GeminiRole(m) == IF m.role = JStr("assistant") THEN "model" ELSE "user"

(* A turn is pushed whatever its parts. *)
PushContentAlways(contents, m, parts) ==
  Append(contents, [role |-> GeminiRole(m), parts |-> parts])

(* if (parts.length > 0) contents.push({ role, parts }) (lines 485-487) *)
PushContent(contents, m, parts) ==
  IF Len(parts) > 0
  THEN Append(contents, [role |-> GeminiRole(m), parts |-> parts])
  ELSE contents

RECURSIVE MapMessages(_, _, _)

(* for (const m of messages) (line 427) *)
MapMessages(ms, contents, table) ==
  IF ms = << >> THEN [contents |-> contents, toolUseIdToName |-> table]
  ELSE LET st == PartsOfMessage(Head(ms), table)
       IN MapMessages(Tail(ms),
            IF Head(ms).obj THEN PushContent(contents, Head(ms), st.parts)
            ELSE contents,
            st.table)

(* buildGeminiContents(messages); prev is the table of the call before. *)
BuildGeminiContents(messages, prev) ==
  IF messages.t # "array"
  THEN [contents |-> << >>, toolUseIdToName |-> NewToolUseIdToName(prev)]
  ELSE MapMessages(messages.a, << >>, NewToolUseIdToName(prev))

(* The inputs of SpecContents. *)
InputBlocks ==
  { TextIn(JStr(" hi ")),
    ImageIn(Base64Source(JStr("image/png"), JStr("AAAA"))),
    ToolUseIn(JStr("f"), JStr("t1"), EmptyObject),
    ToolResultIn(JStr("t1"), FALSE, JStr("ok")),
    ToolResultIn(JStr("constructor"), TRUE, Undefined) }

BlockLists == UNION {[1..n -> InputBlocks] : n \in 0..MaxBlocks}

MessageContents == {JStr("hi"), JStr(" ")} \cup {JArr(bs) : bs \in BlockLists}

Message(obj, role, content) == [obj |-> obj, role |-> role, content |-> content]

InputMessages ==
  {Message(FALSE, Undefined, Undefined)}
    \cup {Message(TRUE, r, c) : r \in {JStr("assistant"), JStr("user")},
                                c \in MessageContents}

(* The content blocks a message carries. *)
BlockCount(m) == IF m.obj /\ m.content.t = "array" THEN Len(m.content.a) ELSE 0

(* The messages that carry k blocks. *)
MessagesOf == [k \in 0..MaxBlocks |-> {x \in InputMessages : BlockCount(x) = k}]

RECURSIVE Histories(_, _), HistoriesFrom(_, _, _)

(* The histories of n turns whose first turn carries k blocks or more and  *)
(* that carry at most budget blocks in all.                                *)
HistoriesFrom(n, budget, k) ==
  IF k > budget THEN {}
  ELSE {<<m>> \o rest : m \in MessagesOf[k], rest \in Histories(n - 1, budget - k)}
         \cup HistoriesFrom(n, budget, k + 1)

(* The histories of n turns that carry at most budget blocks in all. *)
Histories(n, budget) == IF n = 0 THEN {<< >>} ELSE HistoriesFrom(n, budget, 0)

(* Histories of one-block turns that use the id t1 under two tool names,   *)
(* for calls made one after another.                                       *)
SharedIdBlocks ==
  { ToolUseIn(JStr("f"), JStr("t1"), EmptyObject),
    ToolUseIn(JStr("g"), JStr("t1"), EmptyObject),
    ToolResultIn(JStr("t1"), FALSE, JStr("ok")) }

SharedIdHistories ==
  {JArr(ms) : ms \in UNION {[1..n -> {Message(TRUE, JStr("user"), JArr(<<b>>)) :
                                        b \in SharedIdBlocks}] : n \in 1..MaxTurns}}

LastTable == IF conv = << >> THEN NoToolUses ELSE conv[Len(conv)].result.toolUseIdToName

(* const { contents } = buildGeminiContents(parsed.messages) (line 876):   *)
(* one call; the function is synchronous, so calls never interleave.       *)
Build(messages) ==
  /\ Len(conv) < MaxBuilds
  /\ conv' = Append(conv, [messages |-> messages,
                           result |-> BuildGeminiContents(messages, LastTable)])
  /\ UNCHANGED <<fs, now, seqlog, pend, pc, loc, hist, call, asm, fwd, sch, yl>>

(* SpecContents: one call on any message list, or on a body without one. *)
NextContents ==
  /\ conv = << >>
  /\ \/ Build(Undefined)
     \/ \E n \in 0..MaxTurns : \E ms \in Histories(n, MaxBlocks) : Build(JArr(ms))

SpecContents == Init /\ [][NextContents]_vars

(* SpecCalls: calls one after another on histories that share an id. *)
NextCalls == Len(conv) < MaxBuilds /\ \E ms \in SharedIdHistories : Build(ms)

SpecCalls == Init /\ [][NextCalls]_vars

(* The turns of a message list, none when it is not an array. *)
TurnsOf(messages) == IF messages.t = "array" THEN messages.a ELSE << >>

RECURSIVE BlocksInOrder(_)

(* The content blocks of a history in document order. *)
BlocksInOrder(ms) ==
  IF ms = << >> THEN << >>
  ELSE (IF Head(ms).obj /\ Head(ms).content.t = "array"
        THEN Head(ms).content.a ELSE << >>) \o BlocksInOrder(Tail(ms))

(* Block j is a tool-use block that emits the id. *)
Emits(b, id) ==
  /\ b.obj
  /\ b.type = JStr("tool_use")
  /\ b.name.t = "string" /\ b.name.s # ""
  /\ b.id = JStr(id)

(* Block i is a tool-result block whose id some earlier block emitted. *)
Resolved(blocks, i) ==
  /\ blocks[i].obj
  /\ blocks[i].type = JStr("tool_result")
  /\ blocks[i].tool_use_id.t = "string"
  /\ \E j \in 1..(i - 1) : Emits(blocks[j], blocks[i].tool_use_id.s)

(* The tool name of the latest emission of the id of block i before it. *)
ResolvedName(blocks, i) ==
  LET js == {j \in 1..(i - 1) : Emits(blocks[j], blocks[i].tool_use_id.s)}
      j == CHOOSE x \in js : \A y \in js : y <= x
  IN JStr(blocks[j].name.s)

RECURSIVE ResolvedNamesFrom(_, _)

(* The names of the resolved tool results from block i on, in order. *)
ResolvedNamesFrom(blocks, i) ==
  IF i > Len(blocks) THEN << >>
  ELSE (IF Resolved(blocks, i) THEN <<ResolvedName(blocks, i)>> ELSE << >>)
         \o ResolvedNamesFrom(blocks, i + 1)

RECURSIVE ResponseNamesOfParts(_)

ResponseNamesOfParts(parts) ==
  IF parts = << >> THEN << >>
  ELSE (IF "functionResponse" \in DOMAIN Head(parts)
        THEN <<Head(parts).functionResponse.name>> ELSE << >>)
         \o ResponseNamesOfParts(Tail(parts))

RECURSIVE ResponseNames(_)

(* The names of the functionResponse parts of a contents list, in order. *)
ResponseNames(contents) ==
  IF contents = << >> THEN << >>
  ELSE ResponseNamesOfParts(Head(contents).parts) \o ResponseNames(Tail(contents))

(* The functionResponse parts of a call are those of its resolved results. *)
OnlyResolved(c) ==
  ResponseNames(c.result.contents)
    = ResolvedNamesFrom(BlocksInOrder(TurnsOf(c.messages)), 1)

(* C14: the functionResponse parts of the contents are, in order, those of *)
(* the tool-result blocks whose tool_use_id was emitted by a tool-use      *)
(* block earlier in the same history; any other tool result produces no    *)
(* part.                                                                   *)
UnresolvedDropped == \A k \in DOMAIN conv : OnlyResolved(conv[k])

RECURSIVE TableBefore(_, _)

(* The correlation table when the mapper reaches turn i. *)
TableBefore(ms, i) ==
  IF i = 1 THEN NoToolUses
  ELSE PartsOfMessage(ms[i - 1], TableBefore(ms, i - 1)).table

TranslationOf(ms, i) == PartsOfMessage(ms[i], TableBefore(ms, i)).parts

RECURSIVE TranslatedTurnsFrom(_, _)

(* The input turns from i on that translate to at least one part, each     *)
(* with its native role and its parts.                                     *)
TranslatedTurnsFrom(ms, i) ==
  IF i > Len(ms) THEN << >>
  ELSE (IF TranslationOf(ms, i) # << >>
        THEN <<[role |-> IF ms[i].role = JStr("assistant") THEN "model" ELSE "user",
                parts |-> TranslationOf(ms, i)]>>
        ELSE << >>) \o TranslatedTurnsFrom(ms, i + 1)

(* C15: the contents list holds one turn for each input turn that          *)
(* translated to at least one part, in the input order and with those      *)
(* parts; no turn of it has an empty parts list, and its length is the     *)
(* number of input turns that translate to at least one part.              *)
NoEmptyTurns ==
  \A k \in DOMAIN conv :
    LET ms == TurnsOf(conv[k].messages)
        contents == conv[k].result.contents
    IN /\ contents = TranslatedTurnsFrom(ms, 1)
       /\ \A i \in DOMAIN contents : contents[i].parts # << >>
       /\ Len(contents) =
            Cardinality({i \in DOMAIN ms : TranslationOf(ms, i) # << >>})

(* A list of two turns of which the first translates to nothing. *)
NoEmptyTurnsWitness ==
  /\ conv # << >>
  /\ Len(TurnsOf(conv[1].messages)) = 2
  /\ TurnsOf(conv[1].messages)[1].obj
  /\ TranslationOf(TurnsOf(conv[1].messages), 1) = << >>
  /\ Len(conv[1].result.contents) = 1
  /\ conv[1].result.contents[1].role = "model"

(* The ids the tool-use blocks of a history emit. *)
EmittedIds(c) ==
  LET blocks == BlocksInOrder(TurnsOf(c.messages))
  IN {id \in {"t1", "constructor"} : \E j \in DOMAIN blocks : Emits(blocks[j], id)}

(* C16: whatever calls were made before, a call's contents are those its   *)
(* own history gives on a fresh table: a tool result resolves only against *)
(* tool-use blocks of its own history, and the table of the call holds     *)
(* only the ids its own history emits.                                     *)
RequestScoped ==
  \A k \in DOMAIN conv :
    /\ OnlyResolved(conv[k])
    /\ DOMAIN conv[k].result.toolUseIdToName = EmittedIds(conv[k])
    /\ conv[k].result = BuildGeminiContents(conv[k].messages, NoToolUses)

(* A call whose only block is a tool result for t1, made right after a     *)
(* call that registered t1: nothing is produced.                           *)
RequestScopedWitness ==
  \E k \in DOMAIN conv :
    /\ k > 1
    /\ "t1" \in DOMAIN conv[k - 1].result.toolUseIdToName
    /\ TurnsOf(conv[k].messages) =
         <<Message(TRUE, JStr("user"), JArr(<<ToolResultIn(JStr("t1"), FALSE, JStr("ok"))>>))>>
    /\ conv[k].result.contents = << >>
    /\ conv[k].result.toolUseIdToName = NoToolUses

----------------------------------------------------------------------------
(* SpecFetch: interceptedFetch, one call at a time and one step per        *)
(* network await.  The request is (url, method, body); the environment is  *)
(* the configured base URL and API key; the network answers each call      *)
(* with a response or a rejection.                                         *)

Methods == {"POST", "post", "GET"}

(* init.body: none (no init or no body), empty (""), blob (not a string),  *)
(* badjson (a string JSON.parse rejects), null (the JSON text null), or    *)
(* object (a JSON object, with its stream flag).                           *)
(* model is the model property of an object body.                          *)
ReqBodyOf(kind, stream, model) == [kind |-> kind, stream |-> stream, model |-> model]

ReqBody(kind, stream) == ReqBodyOf(kind, stream, Undefined)

ReqBodies ==
  {ReqBody(k, FALSE) : k \in {"none", "empty", "blob", "badjson", "null", "object"}}
    \cup {ReqBody("object", TRUE)}
    \cup {ReqBodyOf("object", FALSE, JStr(" gemini-pro ")),
          ReqBodyOf("object", TRUE, JStr("models/gemini-pro")),
          ReqBodyOf("object", FALSE, JStr(" "))}

Requests == [url : Urls, method : Methods, body : ReqBodies]

(* The configured base URL: whether new URL() accepts it, what             *)
(* isGeminiBaseUrl reads of it, its origin, the segments of its path and   *)
(* the number of slashes at its end.                                       *)
BaseUrl(valid, googleHost, v1beta, origin, path, slashes) ==
  [valid |-> valid, googleHost |-> googleHost, v1beta |-> v1beta,
   origin |-> origin, path |-> path, slashes |-> slashes]

BaseUrls ==
  { BaseUrl(TRUE, FALSE, FALSE, "https://api.anthropic.com", << >>, 0),
    BaseUrl(TRUE, TRUE, FALSE, "https://generativelanguage.googleapis.com", <<"models">>, 2),
    BaseUrl(TRUE, FALSE, TRUE, "https://proxy.example", <<"v1beta", "models", "models">>, 0),
    BaseUrl(FALSE, FALSE, FALSE, "", << >>, 0) }

(* ANTHROPIC_API_KEY: unset, whitespace only, or a key between blanks. *)
ApiKeys == {"none", "blank", " key "}

Envs == [base : BaseUrls, apiKey : ApiKeys]

Throw == [throw |-> TRUE]

(* The replies the network gives in SpecFetch. *)
NetBodies ==
  {Body(k, "") : k \in {"empty", "json", "unreadable"}}
    \cup {Body("text", "boom"), Body("envelope", "boom")}

(* Error bodies that tell the sources of the stored message apart: the     *)
(* JSON text null and a top-level message.                                 *)
PriorityBodies == {Body("jsonnull", ""), Body("msgjson", "boom")}

(* A body holding the JSON text of a generateContent reply. *)
GeminiBody(json) == [kind |-> "gemini", msg |-> "", json |-> json]

(* The generateContent replies of SpecFetch: no candidates; a text part;   *)
(* a text part and a function call cut short by MAX_TOKENS.                *)
NetGeminiJsons ==
  { [candidates |-> Undefined, usageMetadata |-> Undefined],
    [candidates |-> JArr(<<[content |-> [parts |-> <<GeminiPart(TRUE, JStr("hi"), Undefined)>>],
                           finishReason |-> JStr("STOP")]>>),
     usageMetadata |-> [promptTokenCount |-> JNum(7), candidatesTokenCount |-> JNum(5)]],
    [candidates |-> JArr(<<[content |-> [parts |->
                              <<GeminiPart(TRUE, JStr("hi"), Undefined),
                                GeminiPart(TRUE, Undefined,
                                  FunctionCall(JStr("f"), JObj(<< <<"q", JStr("x")>> >>)))>>],
                           finishReason |-> JStr("MAX_TOKENS")]>>),
     usageMetadata |-> Undefined] }

NetOutcomes ==
  {Throw}
    \cup {Response(s, st, b) : s \in Statuses, st \in StatusTexts, b \in NetBodies}
    \cup {Response(200, "", GeminiBody(g)) : g \in NetGeminiJsons}
    \cup {Response(400, "Bad", b) : b \in PriorityBodies}

(* The network calls the interceptor can issue, by target and init. *)
NativeCall == [to |-> "endpoint", init |-> "native"]
ForwardCall == [to |-> "url", init |-> "modified"]
PassThroughCall == [to |-> "input", init |-> "original"]

(* init?.method?.toUpperCase() === 'POST' *)
IsPost(method) == method \in {"POST", "post"}

(* init?.body, as a condition *)
Truthy(body) == body.kind \notin {"none", "empty"}

(* typeof init.body === 'string' *)
IsStringBody(body) == body.kind \in {"empty", "badjson", "null", "object"}

(* JSON.parse(body) returns *)
ParsesAsJson(body) == body.kind \in {"null", "object"}

(* isGeminiBaseUrl(baseUrl) *)
IsGeminiBaseUrl(base) == base.valid /\ (base.googleHost \/ base.v1beta)

(* The key test without the trim. *)
KeyMissingNoTrim(apiKey) == apiKey = "none"

(* !process.env.ANTHROPIC_API_KEY?.trim() *)
KeyMissing(apiKey) == apiKey \in {"none", "blank"}

(* response.ok *)
IsOk(resp) == resp.status >= 200 /\ resp.status <= 299

(* await response.text() of a readable body *)
RawText(body) ==
  CASE body.kind = "text" -> body.msg
    [] body.kind = "envelope" -> "{error:{message:" \o body.msg \o "}}"
    [] body.kind = "msgjson" -> "{message:" \o body.msg \o "}"
    [] body.kind = "json" -> "{}"
    [] body.kind = "jsonnull" -> "null"
    [] body.kind = "gemini" -> "{candidates}"
    [] OTHER -> ""

(* String(parsed.model ?? '') for a model that is missing or a string. *)
StringOfModel(model) == IF model.t = "string" THEN model.s ELSE ""

(* String.prototype.trim and startsWith('models/') on the model ids and    *)
(* keys drawn above.                                                       *)
TrimId(s) ==
  CASE s = " gemini-pro " -> "gemini-pro"
    [] s = " key " -> "key"
    [] s = " " -> ""
    [] OTHER -> s

StartsWithModels(s) == s \in {"models/gemini-pro", "models/gemini-2.0-flash"}

(* normalizeGeminiModelId(model) *)
NormalizeGeminiModelId(model) ==
  IF TrimId(model) = "" THEN "models/gemini-2.0-flash"
  ELSE IF StartsWithModels(TrimId(model)) THEN TrimId(model)
  ELSE "models/" \o TrimId(model)

(* normalizeGeminiModelId(String(parsed.model ?? '')) (line 874) *)
RequestedModel(body) == NormalizeGeminiModelId(StringOfModel(body.model))

RECURSIVE PathText(_)

(* The text of a path: a slash before every segment. *)
PathText(path) ==
  IF path = << >> THEN "" ELSE "/" \o Head(path) \o PathText(Tail(path))

(* normalizeGeminiBaseUrl(baseUrl) of a URL that parses: the slashes at    *)
(* the end go, then one last segment "models" goes.                        *)
NormalizeGeminiBaseUrl(base) ==
  LET path == base.path
      kept == IF path # << >> /\ path[Len(path)] = "models"
              THEN SubSeq(path, 1, Len(path) - 1) ELSE path
  IN base.origin \o PathText(kept)

(* A request sent to the base URL as it is configured. *)
NativeRequestUnnormalized(req, env) ==
  [endpoint |-> env.base.origin \o PathText(env.base.path) \o "/"
                  \o RequestedModel(req.body) \o ":generateContent",
   method |-> "POST", apiKey |-> TrimId(env.apiKey)]

(* originalFetch(endpoint, { method, headers, body }) (lines 893-903):     *)
(* the endpoint, the method and the x-goog-api-key header.                 *)
NativeRequest(req, env) ==
  [endpoint |-> NormalizeGeminiBaseUrl(env.base) \o "/"
                  \o RequestedModel(req.body) \o ":generateContent",
   method |-> "POST", apiKey |-> TrimId(env.apiKey)]

MissingKeyMessage == "Missing API key for Gemini provider"

MissingKeyResponse == Response(401, "", Body("envelope", MissingKeyMessage))

NewCall(n, req, env) ==
  [pc |-> "start", n |-> n, req |-> req, env |-> env, net |-> << >>, replies |-> << >>,
   raised |-> FALSE, logged |-> FALSE, uuids |-> << >>, native |-> Null,
   outcome |-> [kind |-> "none", resp |-> Null, via |-> "none"],
   recorded |-> Null]

Issue(c, netcall, at) == [c EXCEPT !.net = Append(@, netcall), !.pc = at]

(* return logResponse(response, url, startTime) *)
Finished(c, resp, via) ==
  [c EXCEPT !.pc = "done", !.logged = TRUE,
            !.outcome = [kind |-> "response", resp |-> resp, via |-> via]]

(* The promise of interceptedFetch rejects. *)
Rejected(c, via) ==
  [c EXCEPT !.pc = "done",
            !.outcome = [kind |-> "throw", resp |-> Null, via |-> via]]

(* The request sent with a rewritten body. *)
PassThroughRewritten(c) == Issue(c, ForwardCall, "await_pass")

(* originalFetch(input, init) (line 939) *)
PassThrough(c) == Issue(c, PassThroughCall, "await_pass")

(* A handler that lets the exception go. *)
OnExceptionRethrow(c) == Rejected(c, "rethrow")

(* catch (e) { debugLog(...) } (lines 934-936), then line 939 *)
OnException(c) == PassThrough(c)

(* An exception raised inside the try block of lines 855-933. *)
Raise(c) == OnException([c EXCEPT !.raised = TRUE])

(* The synchronous start of interceptedFetch, up to its first await or     *)
(* its return (lines 850-903, 924-931, 939).                               *)
Enter(n, req, env) ==
  LET c == NewCall(n, req, env)
  IN IF IsApiMessagesUrl(req.url) /\ IsPost(req.method) /\ Truthy(req.body)
     THEN IF ~IsStringBody(req.body) THEN PassThrough(c)
          ELSE IF ~ParsesAsJson(req.body) THEN Raise(c)
          ELSE IF IsGeminiBaseUrl(env.base)
               THEN IF KeyMissing(env.apiKey)
                    THEN Finished(c, MissingKeyResponse, "missing_key")
                    ELSE IF req.body.kind = "null" THEN Raise(c)
                    ELSE Issue([c EXCEPT !.native = NativeRequest(req, env)],
                               NativeCall, "await_upstream")
               ELSE IF req.body.kind = "null" THEN Raise(c)
                    ELSE Issue(c, ForwardCall, "await_forward")
     ELSE PassThrough(c)

(* Only the status text is forwarded. *)
UpstreamMessageStatusOnly(o) == o.statusText

(* text || upstreamResponse.statusText (line 907) *)
UpstreamMessage(o) ==
  IF RawText(o.body) # "" THEN RawText(o.body) ELSE o.statusText

(* A failed upstream call handled by throwing. *)
UpstreamFailedThrows(c, o) == Raise(c)

(* The upstream error forwarded (lines 906-913). *)
UpstreamFailed(c, o) ==
  Finished(c, Response(o.status, "", Body("envelope", UpstreamMessage(o))),
           "upstream_error")

(* text ? JSON.parse(text) : {} (line 915) of a reply that parses: the     *)
(* generateContent reply, or an object without candidates.                 *)
GeminiJsonOf(body) ==
  IF body.kind = "gemini" THEN body.json
  ELSE [candidates |-> Undefined, usageMetadata |-> Undefined]

(* Boolean(parsed.stream) (line 873) *)
StreamRequested(body) == body.stream

(* The JSON body whatever the stream flag. *)
AdaptedResponseJsonOnly(built, streamRequested) ==
  Response(200, "", [kind |-> "message", msg |-> "",
                     contentType |-> "application/json",
                     message |-> built.message])

(* createSseResponse(streamEvents, 200) when a stream was asked for and    *)
(* there are events, else the JSON body (lines 917-919, 599-616).          *)
AdaptedResponse(built, streamRequested) ==
  IF streamRequested /\ built.streamEvents # << >>
  THEN Response(200, "", [kind |-> "sse", msg |-> "",
                          contentType |-> "text/event-stream",
                          payload |-> built.streamEvents])
  ELSE Response(200, "", [kind |-> "message", msg |-> "",
                          contentType |-> "application/json",
                          message |-> built.message])

(* The translated reply (lines 915-921): JSON.parse, assemble, wrap. *)
UpstreamSucceeded(c, o, uuids) ==
  IF o.body.kind = "text" THEN Raise(c)
  ELSE Finished([c EXCEPT !.uuids = uuids],
         AdaptedResponse(
           BuildAnthropicMessageFromGeminiResponse(
             GeminiJsonOf(o.body), RequestedModel(c.req.body),
             StreamRequested(c.req.body), uuids),
           StreamRequested(c.req.body)),
         "adapted")

(* After await originalFetch(endpoint, ...) (lines 896-921). *)
OnUpstreamReply(c0, o, uuids) ==
  LET c == [c0 EXCEPT !.replies = Append(@, o)]
  IN IF o = Throw THEN Raise(c)
     ELSE IF o.body.kind = "unreadable" THEN Raise(c)
     ELSE IF ~IsOk(o) THEN UpstreamFailed(c, o)
     ELSE UpstreamSucceeded(c, o, uuids)

(* After await originalFetch(url, modifiedInit) (lines 931-932). *)
OnForwardReply(c0, o) ==
  LET c == [c0 EXCEPT !.replies = Append(@, o)]
  IN IF o = Throw THEN Raise(c) ELSE Finished(c, o, "forward")

(* After await originalFetch(input, init) (lines 939-940). *)
OnPassReply(c0, o) ==
  LET c == [c0 EXCEPT !.replies = Append(@, o)]
  IN IF o = Throw THEN Rejected(c, "passthrough") ELSE Finished(c, o, "passthrough")

(* What logResponse leaves in an empty cache: the record written, if any. *)
WrittenBy(resp, url, t) == Stored(LogResponse(EmptyFs, resp, url, t))

(* The call moves to c; a response being returned goes through the         *)
(* recorder first.                                                         *)
Settle(c) ==
  IF c.pc = "done" /\ c.logged
  THEN /\ fs' = LogResponse(fs, c.outcome.resp, c.req.url, now)
       /\ call' = [c EXCEPT !.recorded = WrittenBy(c.outcome.resp, c.req.url, now)]
  ELSE /\ fs' = fs
       /\ call' = c

Begin(req, env) ==
  /\ call.pc = "idle"
  /\ call.n < MaxCalls
  /\ Settle(Enter(call.n + 1, req, env))
  /\ UNCHANGED <<now, seqlog, pend, pc, loc, hist, xl>>

UpstreamReply(o) ==
  /\ call.pc = "await_upstream"
  /\ \E uuids \in UuidDraws : Settle(OnUpstreamReply(call, o, uuids))
  /\ UNCHANGED <<now, seqlog, pend, pc, loc, hist, xl>>

ForwardReply(o) ==
  /\ call.pc = "await_forward"
  /\ Settle(OnForwardReply(call, o))
  /\ UNCHANGED <<now, seqlog, pend, pc, loc, hist, xl>>

PassReply(o) ==
  /\ call.pc = "await_pass"
  /\ Settle(OnPassReply(call, o))
  /\ UNCHANGED <<now, seqlog, pend, pc, loc, hist, xl>>

(* The caller has the result; the next call may start. *)
Returned ==
  /\ call.pc = "done"
  /\ call' = IdleCall(call.n)
  /\ UNCHANGED <<fs, now, seqlog, pend, pc, loc, hist, xl>>

NextFetch ==
  \/ \E req \in Requests, env \in Envs : Begin(req, env)
  \/ \E o \in NetOutcomes : UpstreamReply(o)
  \/ \E o \in NetOutcomes : ForwardReply(o)
  \/ \E o \in NetOutcomes : PassReply(o)
  \/ Returned

SpecFetch == Init /\ [][NextFetch]_vars

----------------------------------------------------------------------------
(* Claims on interceptedFetch, read off the finished call. *)

AtDone == call.pc = "done"

(* The dispatch test of line 850-853 holds for the call. *)
Watched(c) ==
  IsApiMessagesUrl(c.req.url) /\ IsPost(c.req.method) /\ Truthy(c.req.body)

(* The call is a watched POST under a Gemini base URL with no API key. *)
NoCredential(c) ==
  /\ Watched(c)
  /\ IsGeminiBaseUrl(c.env.base)
  /\ c.env.apiKey \in {"none", "blank"}

(* The synthetic 401 came back and the network was never called. *)
ShortCircuited(c) ==
  /\ c.outcome.kind = "response"
  /\ c.outcome.resp.status = 401
  /\ c.outcome.resp.body = Body("envelope", "Missing API key for Gemini provider")
  /\ c.net = << >>

(* C6, as claimed: a watched POST with a body, a Gemini base URL and no    *)
(* API key gets the synthetic 401 and no network call.                     *)
MissingKeyAnyBody == (AtDone /\ NoCredential(call)) => ShortCircuited(call)

(* C6, amended: the same for a body that is a string holding valid JSON.   *)
MissingKeyJsonBody ==
  (AtDone /\ NoCredential(call) /\ call.req.body.kind \in {"null", "object"})
    => ShortCircuited(call)

(* A whitespace-only key and a JSON body: 401, nothing sent, and the 401   *)
(* is in the error cache.                                                  *)
MissingKeyWitness ==
  /\ AtDone
  /\ NoCredential(call)
  /\ call.env.apiKey = "blank"
  /\ call.req.body.kind = "object"
  /\ ShortCircuited(call)
  /\ Stored(fs) # Null

(* The call is on the translating path. *)
Translating(c) == Watched(c) /\ IsGeminiBaseUrl(c.env.base)

(* What the caller got is what the last network call gave. *)
LastReplySurfaced(c) ==
  /\ c.replies # << >>
  /\ LET o == c.replies[Len(c.replies)]
     IN IF o = Throw THEN c.outcome.kind = "throw"
        ELSE c.outcome.kind = "response" /\ c.outcome.resp = o

(* C7: an exception on the translating path never reaches the caller;      *)
(* the original request goes to the network and its result is returned.    *)
FallbackOnException ==
  (AtDone /\ Translating(call) /\ call.raised) =>
    /\ call.outcome.via = "passthrough"
    /\ call.net # << >>
    /\ call.net[Len(call.net)] = PassThroughCall
    /\ LastReplySurfaced(call)

(* The upstream call threw; the pass-through reply was returned. *)
FallbackWitness ==
  /\ AtDone
  /\ Translating(call)
  /\ call.raised
  /\ call.net = <<NativeCall, PassThroughCall>>
  /\ call.replies[1] = Throw
  /\ call.outcome.kind = "response"

(* C8, as claimed: at most one network call per intercepted call. *)
SingleAttempt == AtDone => Len(call.net) <= 1

(* The first reply raised an exception in the handler. *)
FirstReplyThrew(c) ==
  LET o == c.replies[1]
  IN \/ o = Throw
     \/ (c.net[1] = NativeCall /\ o.body.kind = "unreadable")
     \/ (c.net[1] = NativeCall /\ IsOk(o) /\ o.body.kind = "text")

(* C8, amended: at most two network calls; a second one only as the        *)
(* pass-through after an exception raised once the first call was issued   *)
(* (it threw, or its reply could not be read or parsed); an error status   *)
(* alone never causes another call, and a rejection the caller sees is     *)
(* that of the last call.                                                  *)
AtMostOneRetry ==
  AtDone =>
    /\ Len(call.net) <= 2
    /\ ~call.raised => Len(call.net) <= 1
    /\ Len(call.net) = 2 =>
         /\ call.raised
         /\ call.net[1] # PassThroughCall
         /\ call.net[2] = PassThroughCall
         /\ FirstReplyThrew(call)
    /\ call.outcome.kind = "throw" => call.replies[Len(call.replies)] = Throw

(* The upstream call answered 500 and nothing else was sent. *)
AtMostOneRetryWitness ==
  /\ AtDone
  /\ call.net = <<NativeCall>>
  /\ call.replies[1] # Throw
  /\ call.replies[1].status = 500
  /\ call.outcome.kind = "response"
  /\ call.outcome.resp.status = 500

(* C9: the call writes the error cache exactly when its URL is the         *)
(* matching endpoint and the response handed back has status >= 400, on    *)
(* every path; what is written carries that status and is what the file    *)
(* then holds.                                                             *)
RecordedIffError ==
  AtDone =>
    /\ call.recorded # Null <=>
         /\ IsApiMessagesUrl(call.req.url)
         /\ call.outcome.kind = "response"
         /\ call.outcome.resp.status >= 400
    /\ call.recorded # Null =>
         /\ call.recorded.status = call.outcome.resp.status
         /\ Stored(fs) = call.recorded

(* A pass-through reply of status 400 to a GET of the matching endpoint    *)
(* was recorded.                                                           *)
RecordedWitness ==
  /\ AtDone
  /\ call.outcome.kind = "response"
  /\ call.outcome.via = "passthrough"
  /\ call.req.method = "GET"
  /\ call.outcome.resp.status = 400
  /\ call.recorded # Null

(* The native call came back with a status outside 200-299. *)
UpstreamNon2xx(c) ==
  /\ c.net # << >>
  /\ c.net[1] = NativeCall
  /\ c.replies[1] # Throw
  /\ ~(c.replies[1].status >= 200 /\ c.replies[1].status <= 299)

(* The caller got status S and {error:{message}} with the upstream text,   *)
(* or the status text when the text is empty; nothing else was sent.       *)
Forwarded(c) ==
  LET o == c.replies[1]
      text == RawText(o.body)
  IN /\ c.outcome.kind = "response"
     /\ c.outcome.resp.status = o.status
     /\ c.outcome.resp.body =
          Body("envelope", IF text # "" THEN text ELSE o.statusText)
     /\ c.net = <<NativeCall>>

(* C10, as claimed: a non-2xx upstream status is forwarded and recorded. *)
UpstreamErrorRecorded ==
  (AtDone /\ UpstreamNon2xx(call)) =>
    /\ Forwarded(call)
    /\ call.recorded # Null

(* C10, amended: a non-2xx upstream reply whose text can be read is        *)
(* forwarded, streaming or not, and it is recorded when its status is 400  *)
(* or more.                                                                *)
UpstreamErrorForwarded ==
  (AtDone /\ UpstreamNon2xx(call) /\ call.replies[1].body.kind # "unreadable") =>
    /\ Forwarded(call)
    /\ call.replies[1].status >= 400 =>
         /\ call.recorded # Null
         /\ call.recorded.status = call.replies[1].status
         /\ call.recorded.message = call.outcome.resp.body.msg
         /\ Stored(fs) = call.recorded

(* A streaming request whose upstream call answered 500 with a text. *)
UpstreamErrorWitness ==
  /\ AtDone
  /\ UpstreamNon2xx(call)
  /\ call.req.body.stream
  /\ call.replies[1].status = 500
  /\ call.replies[1].body = Body("text", "boom")
  /\ call.outcome.resp.body = Body("envelope", "boom")
  /\ call.recorded # Null

(* C18: a call whose URL is not the matching endpoint, whose method is not *)
(* POST or that has no body makes exactly one network call, with the       *)
(* caller's input and init, and what that call gives is what the caller    *)
(* gets; nothing is parsed, rewritten or translated.                       *)
PassThroughUnmodified ==
  (AtDone /\ ~Watched(call)) =>
    /\ call.net = <<PassThroughCall>>
    /\ ~call.raised
    /\ call.outcome.via = "passthrough"
    /\ LastReplySurfaced(call)

(* A GET of the matching endpoint with a JSON body under a Gemini base URL *)
(* went out as it came and its reply was returned.                         *)
PassThroughWitness ==
  /\ AtDone
  /\ IsApiMessagesUrl(call.req.url)
  /\ call.req.method = "GET"
  /\ call.req.body.kind = "object"
  /\ IsGeminiBaseUrl(call.env.base)
  /\ call.net = <<PassThroughCall>>
  /\ call.outcome.kind = "response"
  /\ call.outcome.resp = call.replies[1]

(* The upstream call answered 2xx with a text that parses as JSON. *)
UpstreamParsed(c) ==
  /\ c.net # << >>
  /\ c.net[1] = NativeCall
  /\ c.replies[1] # Throw
  /\ IsOk(c.replies[1])
  /\ c.replies[1].body.kind \notin {"unreadable", "text"}

(* What the assembler gives for the upstream reply of the call. *)
Assembled(c) ==
  BuildAnthropicMessageFromGeminiResponse(
    GeminiJsonOf(c.replies[1].body), RequestedModel(c.req.body),
    c.req.body.stream, c.uuids)

(* C19: a translated call whose upstream reply is a success gets status    *)
(* 200; without the stream flag the body is JSON holding the assembled     *)
(* message and no frames exist; with the flag the body is                  *)
(* text/event-stream holding the 3n+3 synthesized frames, n = 0 included.  *)
ShapeFollowsStreamFlag ==
  (AtDone /\ UpstreamParsed(call)) =>
    /\ call.outcome.via = "adapted"
    /\ call.outcome.kind = "response"
    /\ call.outcome.resp.status = 200
    /\ LET body == call.outcome.resp.body
           built == Assembled(call)
       IN IF call.req.body.stream
          THEN /\ body.kind = "sse"
               /\ body.contentType = "text/event-stream"
               /\ body.payload = built.streamEvents
               /\ Len(Frames(body.payload)) = 3 * Len(built.message.content) + 3
          ELSE /\ body.kind = "message"
               /\ body.contentType = "application/json"
               /\ body.message = built.message
               /\ built.streamEvents = Undefined
               /\ "payload" \notin DOMAIN body

(* A streaming call whose upstream reply has no candidates: an event       *)
(* stream of three frames.                                                 *)
ShapeFollowsStreamFlagWitness ==
  /\ AtDone
  /\ UpstreamParsed(call)
  /\ call.req.body.stream
  /\ call.outcome.kind = "response"
  /\ call.outcome.resp.body.kind = "sse"
  /\ Len(Frames(call.outcome.resp.body.payload)) = 3
  /\ Assembled(call).message.content = << >>

(* JSON.parse(errorText) returns (line 764). *)
IsJsonText(body) == body.kind \in {"json", "jsonnull", "envelope", "msgjson"}

(* errorJson.error?.message or errorJson.message is truthy (lines 765-769). *)
HasMessage(body) == body.kind \in {"envelope", "msgjson"} /\ body.msg # ""

(* A call has returned a response that the recorder wrote to the cache. *)
Recorded == AtDone /\ call.outcome.kind = "response" /\ call.recorded # Null

(* C33 as stated: the stored message is the message field of a JSON body   *)
(* that has one, otherwise the raw text when non-empty, otherwise the      *)
(* status text.                                                            *)
MessagePriority ==
  Recorded =>
    LET resp == call.outcome.resp
    IN call.recorded.message =
         IF IsJsonText(resp.body) /\ HasMessage(resp.body) THEN resp.body.msg
         ELSE IF RawText(resp.body) # "" THEN RawText(resp.body)
         ELSE resp.statusText

(* C33: the stored message is the non-empty message field of a JSON body;  *)
(* otherwise the raw text when it is non-empty and is not JSON, or is the  *)
(* JSON text null; otherwise (JSON without a message, empty or unreadable  *)
(* body) the status text.                                                  *)
MessagePriorityOfNonJson ==
  Recorded =>
    LET resp == call.outcome.resp
    IN call.recorded.message =
         IF IsJsonText(resp.body) /\ HasMessage(resp.body) THEN resp.body.msg
         ELSE IF /\ RawText(resp.body) # ""
                 /\ (~IsJsonText(resp.body) \/ resp.body.kind = "jsonnull")
              THEN RawText(resp.body)
         ELSE resp.statusText

(* A JSON body without a message was recorded under the status text. *)
MessagePriorityOfNonJsonWitness ==
  /\ Recorded
  /\ call.outcome.resp.body = Body("json", "")
  /\ call.outcome.resp.statusText = "Bad"
  /\ call.recorded.message = "Bad"

----------------------------------------------------------------------------
(* The non-translating branch of interceptedFetch (lines 924-932):         *)
(* addMetadataToMcpTools on the parsed body, then the body forwarded.      *)

MaxTools == 2

(* name.startsWith('mcp__') on the names drawn below. *)
StartsWithMcp(s) == s = "mcp__a"

(* A tool of the request: obj is whether it is a non-null object; its      *)
(* input_schema is Undefined or [properties, required], properties being   *)
(* Undefined or a function from property names to their type, required     *)
(* being Undefined or a list of names.                                     *)
Tool(name, inputSchema) == [obj |-> TRUE, name |-> name, input_schema |-> inputSchema]

NullTool == [obj |-> FALSE, name |-> Undefined, input_schema |-> Undefined]

InputSchema(properties, required) == [properties |-> properties, required |-> required]

Properties(types) == [t |-> "object", types |-> types]

Required(names) == [t |-> "array", a |-> names]

(* The property written whether or not the name is already a property. *)
SetProperty(types, name) ==
  [k \in DOMAIN types \cup {name} |-> IF k = name THEN "string" ELSE types[k]]

(* properties[name] = { type: 'string', description } unless the name is   *)
(* already a property (lines 646-661).                                     *)
AddProperty(types, name) ==
  IF name \in DOMAIN types THEN types
  ELSE [k \in DOMAIN types \cup {name} |-> IF k = name THEN "string" ELSE types[k]]

(* currentRequired.includes(name) *)
Includes(names, name) == \E i \in DOMAIN names : names[i] = name

(* The new required list (lines 665-673). *)
AddRequired(required) ==
  LET currentRequired == IF required = Undefined THEN << >> ELSE required.a
      withIntent == IF Includes(currentRequired, "_intent") THEN currentRequired
                    ELSE Append(currentRequired, "_intent")
  IN Required(IF Includes(currentRequired, "_displayName") THEN withIntent
              ELSE Append(withIntent, "_displayName"))

(* The test of line 642. *)
IsMcpToolWithProperties(tool) ==
  /\ tool.name.t = "string"
  /\ StartsWithMcp(tool.name.s)
  /\ tool.input_schema # Undefined
  /\ tool.input_schema.properties # Undefined

(* The body of the loop of lines 640-677 for one tool. *)
AddMetadataToTool(tool) ==
  IF ~IsMcpToolWithProperties(tool) THEN tool
  ELSE LET types == tool.input_schema.properties.types
           modified == "_intent" \notin DOMAIN types \/ "_displayName" \notin DOMAIN types
       IN [tool EXCEPT
             !.input_schema.properties =
                Properties(AddProperty(AddProperty(types, "_intent"), "_displayName")),
             !.input_schema.required =
                IF modified THEN AddRequired(@) ELSE @]

(* tool.name?.startsWith throws a TypeError for a null tool and for a name *)
(* that is neither a string nor undefined.                                 *)
ToolThrows(tool) == ~tool.obj \/ tool.name.t \notin {"string", "undefined"}

(* addMetadataToMcpTools(body): the body returned, or thrown when a tool   *)
(* of the array throws.                                                    *)
AddMetadataToMcpTools(body) ==
  IF body.tools.t # "array" THEN [thrown |-> FALSE, body |-> body]
  ELSE IF \E i \in DOMAIN body.tools.a : ToolThrows(body.tools.a[i])
       THEN [thrown |-> TRUE, body |-> body]
       ELSE [thrown |-> FALSE,
             body |-> [body EXCEPT !.tools.a =
                         [i \in DOMAIN body.tools.a |-> AddMetadataToTool(body.tools.a[i])]]]

(* The inputs of SpecForward. *)
ToolNames == {JStr("mcp__a"), JStr("Read"), JNum(1)}

PropertyTypes ==
  { [k \in {} |-> ""],
    [k \in {"q"} |-> "string"],
    [k \in {"_intent"} |-> "number"],
    [k \in {"_intent", "_displayName"} |-> IF k = "_intent" THEN "number" ELSE "string"] }

RequiredLists == {Undefined, Required(<<"q">>), Required(<<"_intent">>)}

InputSchemas ==
  {Undefined}
    \cup {InputSchema(p, r) : p \in {Undefined} \cup {Properties(ts) : ts \in PropertyTypes},
                              r \in RequiredLists}

Tools == {NullTool} \cup {Tool(n, s) : n \in ToolNames, s \in InputSchemas}

ToolLists == UNION {[1..n -> Tools] : n \in 0..MaxTools}

ParsedBodies ==
  [tools : {Undefined, JStr("none")} \cup {JArr(ts) : ts \in ToolLists},
   model : {JStr("claude")}]

(* parsed = addMetadataToMcpTools(parsed); originalFetch(url, { ...init,    *)
(* body: JSON.stringify(parsed) }) (lines 924-931); an exception leads to  *)
(* originalFetch(input, init) with the caller's body (lines 934-939).      *)
Forward(parsed) ==
  /\ fwd' = LET r == AddMetadataToMcpTools(parsed)
            IN [made |-> TRUE, parsed |-> parsed,
                sent |-> IF r.thrown THEN [call |-> PassThroughCall, body |-> parsed]
                         ELSE [call |-> ForwardCall, body |-> r.body]]
  /\ UNCHANGED <<fs, now, seqlog, pend, pc, loc, hist, call, asm, conv, sch, yl>>

NextForward == ~fwd.made /\ \E parsed \in ParsedBodies : Forward(parsed)

SpecForward == Init /\ [][NextForward]_vars

(* The tools of the body that was sent. *)
SentTools == IF fwd.sent.body.tools.t = "array" THEN fwd.sent.body.tools.a ELSE << >>

IsMcpTool(tool) == tool.obj /\ tool.name.t = "string" /\ tool.name.s = "mcp__a"

Occurrences(names, name) == Cardinality({i \in DOMAIN names : names[i] = name})

(* The tool has both string properties and both names once in required. *)
HasMetadata(tool) ==
  /\ tool.input_schema # Undefined
  /\ tool.input_schema.properties # Undefined
  /\ \A name \in {"_intent", "_displayName"} :
       /\ name \in DOMAIN tool.input_schema.properties.types
       /\ tool.input_schema.properties.types[name] = "string"
       /\ tool.input_schema.required # Undefined
       /\ Occurrences(tool.input_schema.required.a, name) = 1

(* C17: in the body forwarded on the non-translating branch every tool     *)
(* whose name starts with mcp__ has string properties _intent and          *)
(* _displayName and both names exactly once in its required list.          *)
McpMetadataInjected ==
  (fwd.made /\ fwd.sent.call = ForwardCall) =>
    \A i \in DOMAIN SentTools : IsMcpTool(SentTools[i]) => HasMetadata(SentTools[i])

(* The tools of the body addMetadataToMcpTools was given. *)
GivenTools == IF fwd.parsed.tools.t = "array" THEN fwd.parsed.tools.a ELSE << >>

(* Every property the tool had is defined as it was, and the required list *)
(* it had is the start of the one it has.                                  *)
KeepsExisting(given, sent) ==
  (given.input_schema # Undefined) =>
    /\ sent.input_schema # Undefined
    /\ (given.input_schema.properties # Undefined) =>
         \A k \in DOMAIN given.input_schema.properties.types :
           /\ k \in DOMAIN sent.input_schema.properties.types
           /\ sent.input_schema.properties.types[k] =
                given.input_schema.properties.types[k]
    /\ (given.input_schema.required # Undefined) =>
         /\ sent.input_schema.required # Undefined
         /\ Len(sent.input_schema.required.a) >= Len(given.input_schema.required.a)
         /\ SubSeq(sent.input_schema.required.a, 1,
                   Len(given.input_schema.required.a)) = given.input_schema.required.a

(* C37: addMetadataToMcpTools applied to its own result returns it as it   *)
(* is; the fields of the body other than tools and the tools whose name    *)
(* does not start with mcp__ are as given; every property a tool had is    *)
(* defined as before and its required entries are kept, in order.          *)
McpInjectionIdempotentFramed ==
  (fwd.made /\ fwd.sent.call = ForwardCall) =>
    /\ AddMetadataToMcpTools(fwd.sent.body) = [thrown |-> FALSE, body |-> fwd.sent.body]
    /\ DOMAIN fwd.sent.body = DOMAIN fwd.parsed
    /\ \A f \in DOMAIN fwd.parsed \ {"tools"} : fwd.sent.body[f] = fwd.parsed[f]
    /\ fwd.sent.body.tools.t = fwd.parsed.tools.t
    /\ fwd.parsed.tools.t # "array" => fwd.sent.body.tools = fwd.parsed.tools
    /\ DOMAIN SentTools = DOMAIN GivenTools
    /\ \A i \in DOMAIN GivenTools :
         /\ ~IsMcpTool(GivenTools[i]) => SentTools[i] = GivenTools[i]
         /\ SentTools[i].name = GivenTools[i].name
         /\ KeepsExisting(GivenTools[i], SentTools[i])

(* An MCP tool that had a numeric _intent and required q, beside a tool    *)
(* named Read: _intent is still numeric, _displayName was added, required  *)
(* starts with q, and Read is as given.                                    *)
McpInjectionIdempotentFramedWitness ==
  /\ fwd.made
  /\ fwd.sent.call = ForwardCall
  /\ fwd.parsed.tools =
       JArr(<<Tool(JStr("mcp__a"),
                   InputSchema(Properties([k \in {"_intent"} |-> "number"]),
                               Required(<<"q">>))),
              Tool(JStr("Read"),
                   InputSchema(Properties([k \in {"q"} |-> "string"]), Undefined))>>)
  /\ SentTools[1].input_schema =
       InputSchema(Properties([k \in {"_intent", "_displayName"} |->
                                 IF k = "_intent" THEN "number" ELSE "string"]),
                   Required(<<"q", "_intent", "_displayName">>))
  /\ SentTools[2] = GivenTools[2]
  /\ fwd.sent.body.model = JStr("claude")

----------------------------------------------------------------------------
(* The schema translator: toGeminiType, mergeGeminiSchemas and             *)
(* normalizeJsonSchemaForGemini.  A JSON-Schema node is a record of the    *)
(* keywords the translator reads, Undefined where the keyword is absent;   *)
(* its properties are <<name, schema>> pairs in insertion order.  A number *)
(* n stands for n/2, so that halves can be drawn.  A translated schema is  *)
(* a function from the keys that are set to their values.                  *)

MaxBranches == 3
MaxTypes == 2
MaxHalves == 3

JBool(b) == [t |-> "boolean", b |-> b]

NoKeywords ==
  [t |-> "schema", allOf |-> Undefined, anyOf |-> Undefined, oneOf |-> Undefined,
   type |-> Undefined, properties |-> Undefined, items |-> Undefined,
   enum |-> Undefined, description |-> Undefined, required |-> Undefined,
   minimum |-> Undefined, maximum |-> Undefined,
   exclusiveMinimum |-> Undefined, exclusiveMaximum |-> Undefined,
   minItems |-> Undefined, maxItems |-> Undefined,
   minLength |-> Undefined, maxLength |-> Undefined, format |-> Undefined]

PropertyEntries(entries) == [t |-> "object", entries |-> entries]

(* String.prototype.toLowerCase on the type names drawn below. *)
ToLowerCase(s) ==
  CASE s = "String" -> "string"
    [] s = "NULL" -> "null"
    [] OTHER -> s

(* The type name left as it is written. *)
TypeNameUnchanged(type) == IF type.t # "string" THEN "" ELSE type.s

(* toGeminiType(type): the type name, or "" for undefined. *)
ToGeminiType(type) ==
  IF type.t # "string" THEN ""
  ELSE CASE ToLowerCase(type.s) = "object" -> "OBJECT"
         [] ToLowerCase(type.s) = "array" -> "ARRAY"
         [] ToLowerCase(type.s) = "string" -> "STRING"
         [] ToLowerCase(type.s) = "number" -> "NUMBER"
         [] ToLowerCase(type.s) = "integer" -> "INTEGER"
         [] ToLowerCase(type.s) = "boolean" -> "BOOLEAN"
         [] OTHER -> ""

(* A translated schema with no key set. *)
EmptySchema == [k \in {} |-> Undefined]

Has(o, k) == k \in DOMAIN o

(* o[k] = v *)
With(o, k, v) == [x \in DOMAIN o \cup {k} |-> IF x = k THEN v ELSE o[x]]

(* if (test) o[k] = v *)
WithIf(test, o, k, v) == IF test THEN With(o, k, v) ELSE o

(* { ...a, ...b } *)
Spread(a, b) == [x \in DOMAIN a \cup DOMAIN b |-> IF x \in DOMAIN b THEN b[x] ELSE a[x]]

(* a.key ?? [] for a list-valued key *)
ListOf(o, k) == IF Has(o, k) THEN o[k] ELSE << >>

(* a.items as a condition: set and not undefined *)
HasItems(o) == Has(o, "items") /\ o.items # Undefined

RECURSIVE Distinct(_, _)

(* Array.from(set) after adding the names in order: first occurrences. *)
Distinct(list, seen) ==
  IF list = << >> THEN << >>
  ELSE IF Head(list) \in seen THEN Distinct(Tail(list), seen)
  ELSE <<Head(list)>> \o Distinct(Tail(list), seen \cup {Head(list)})

RECURSIVE SpreadEntries(_, _)

(* { ...a.properties, ...b.properties } on <<name, schema>> pairs. *)
SpreadEntries(a, b) ==
  IF b = << >> THEN a
  ELSE SpreadEntries(SetMember(a, b[1][1], b[1][2]), Tail(b))

(* The required list of the later schema when it has one. *)
LaterRequired(a, b) == IF Has(b, "required") THEN b.required ELSE ListOf(a, "required")

(* The set built at lines 243-246, as a list. *)
UnionRequired(a, b) == Distinct(ListOf(a, "required") \o ListOf(b, "required"), {})

(* mergeGeminiSchemas(a, b) *)
MergeGeminiSchemas(a, b) ==
  LET m0 == Spread(a, b)
      m1 == WithIf(Has(a, "description") /\ ~Has(b, "description"),
                   m0, "description", ListOf(a, "description"))
      m2 == WithIf(Has(b, "description") /\ ~Has(a, "description"),
                   m1, "description", ListOf(b, "description"))
      m3 == WithIf(Has(a, "nullable") \/ Has(b, "nullable"), m2, "nullable", TRUE)
      m4 == WithIf(Has(a, "required") \/ Has(b, "required"),
                   m3, "required", UnionRequired(a, b))
      m5 == WithIf(Has(a, "properties") \/ Has(b, "properties"),
                   m4, "properties",
                   SpreadEntries(ListOf(a, "properties"), ListOf(b, "properties")))
      m6 == WithIf(HasItems(a) \/ HasItems(b),
                   m5, "items", IF HasItems(b) THEN b.items ELSE ListOf(a, "items"))
      m7 == WithIf(Has(a, "enum") \/ Has(b, "enum"),
                   m6, "enum", IF Has(b, "enum") THEN b.enum ELSE ListOf(a, "enum"))
  IN m7

(* x is the string "null" in any letter case (lines 288, 310). *)
IsNullName(x) == x.t = "string" /\ ToLowerCase(x.s) = "null"

NotNullName(x) == ~IsNullName(x)

(* Math.floor(n) and Math.ceil(n) on halves *)
Floor(n) == (n \div 2) * 2
Ceil(n) == ((n + 1) \div 2) * 2

(* Math.ceil where Math.floor(e) + 1 is meant. *)
IntegerAboveByCeil(e) == Ceil(e)

(* Math.floor(exclusiveMinimum) + 1 (line 349) *)
IntegerAbove(e) == Floor(e) + 2

(* Math.ceil(exclusiveMaximum) - 1 (line 351) *)
IntegerBelow(e) == Ceil(e) - 2

(* The stricter of the two lower bounds. *)
StricterLowerBound(isInt, minimum, exclusiveMinimum) ==
  IF minimum.t = "number" /\ exclusiveMinimum.t = "number"
  THEN LET above == IF isInt THEN IntegerAbove(exclusiveMinimum.n) ELSE exclusiveMinimum.n
       IN JNum(IF above > minimum.n THEN above ELSE minimum.n)
  ELSE IF minimum.t = "number" THEN minimum
  ELSE IF exclusiveMinimum.t = "number"
       THEN JNum(IF isInt THEN IntegerAbove(exclusiveMinimum.n) ELSE exclusiveMinimum.n)
  ELSE Undefined

(* out.minimum of an INTEGER or NUMBER node (lines 348-349, 353-354), or   *)
(* Undefined when none is set.                                             *)
LowerBound(isInt, minimum, exclusiveMinimum) ==
  IF minimum.t = "number" THEN minimum
  ELSE IF exclusiveMinimum.t = "number"
       THEN JNum(IF isInt THEN IntegerAbove(exclusiveMinimum.n) ELSE exclusiveMinimum.n)
  ELSE Undefined

(* out.maximum of an INTEGER or NUMBER node (lines 350-351, 355-356). *)
UpperBound(isInt, maximum, exclusiveMaximum) ==
  IF maximum.t = "number" THEN maximum
  ELSE IF exclusiveMaximum.t = "number"
       THEN JNum(IF isInt THEN IntegerBelow(exclusiveMaximum.n) ELSE exclusiveMaximum.n)
  ELSE Undefined

(* if (bound is set) out[k] = bound *)
WithBound(o, k, bound) == IF bound = Undefined THEN o ELSE With(o, k, bound.n)

(* The non-empty strings of a required list (line 383). *)
IsName(r) == r.t = "string" /\ r.s # ""

RECURSIVE NamesOf(_)

NamesOf(required) ==
  IF required = << >> THEN << >>
  ELSE (IF IsName(Head(required)) THEN <<Head(required).s>> ELSE << >>)
         \o NamesOf(Tail(required))

(* The required names cut down to those with a translated property. *)
RequiredWithProperty(required, converted) ==
  SelectSeq(NamesOf(required),
            LAMBDA r : \E i \in DOMAIN converted : converted[i][1] = r)

(* for (const r of required) if (typeof r === 'string' && r) req.push(r)   *)
(* (lines 380-384): the translated properties are not consulted.           *)
RequiredNames(required, converted) == NamesOf(required)

(* The values an enum keeps (line 337). *)
IsEnumValue(v) == v.t \in {"null", "string", "number", "boolean"}

(* s.enum.find(v => v !== null && v !== undefined) *)
EnumSample(enum) ==
  LET js == {j \in DOMAIN enum : enum[j].t \notin {"null", "undefined"}}
  IN IF js = {} THEN Undefined ELSE enum[CHOOSE j \in js : \A i \in js : j <= i]

(* The type guessed from the other keywords (lines 317-326). *)
GuessedType(s) ==
  IF s.properties.t = "object" THEN "OBJECT"
  ELSE IF s.items.t \in {"schema", "object"} THEN "ARRAY"
  ELSE IF s.enum.t = "array" /\ s.enum.a # << >>
       THEN LET sample == EnumSample(s.enum.a)
            IN CASE sample.t = "string" -> "STRING"
                 [] sample.t = "number" -> IF sample.n % 2 = 0 THEN "INTEGER" ELSE "NUMBER"
                 [] sample.t = "boolean" -> "BOOLEAN"
                 [] OTHER -> ""
  ELSE ""

(* The type list of a node: its array, or its one name, or none. *)
TypeArr(type) ==
  IF type.t = "array" THEN type.a
  ELSE IF type.t = "string" THEN <<type>>
  ELSE << >>

(* The last translated variant kept. *)
KeepLast(converted, chosen) == IF converted # Undefined THEN converted ELSE chosen

(* if (converted && !chosen) chosen = converted (lines 294, 299) *)
Keep(converted, chosen) ==
  IF converted # Undefined /\ chosen = Undefined THEN converted ELSE chosen

(* Every child kept. *)
KeepChildAlways(child) == TRUE

(* if (child) converted[k] = child (line 375) *)
KeepChild(child) == child # Undefined

(* The allOf of a node read only when the node has no type of its own. *)
AllOfBesideNoType(s) == s.allOf.t = "array" /\ s.allOf.a # << >> /\ s.type = Undefined

(* allOf && allOf.length > 0 (lines 267-268) *)
AllOfInForce(s) == s.allOf.t = "array" /\ s.allOf.a # << >>

RECURSIVE NormalizeJsonSchemaForGemini(_), MergeBranches(_, _),
          ChooseVariant(_, _, _), ConvertEntries(_)

(* for (const part of allOf) (lines 269-275) *)
MergeBranches(parts, merged) ==
  IF parts = << >> THEN merged
  ELSE LET converted == NormalizeJsonSchemaForGemini(Head(parts))
       IN MergeBranches(Tail(parts),
            IF converted = Undefined THEN merged
            ELSE IF merged = Undefined THEN converted
            ELSE MergeGeminiSchemas(merged, converted))

(* for (const variant of union) (lines 282-302) *)
ChooseVariant(variants, chosen, nullable) ==
  IF variants = << >>
  THEN IF chosen = Undefined THEN Undefined
       ELSE WithIf(nullable, chosen, "nullable", TRUE)
  ELSE LET variant == Head(variants)
       IN IF variant.t # "schema" THEN ChooseVariant(Tail(variants), chosen, nullable)
          ELSE LET vtArr == TypeArr(variant.type)
                   nonNullTypes == SelectSeq(vtArr, NotNullName)
               IN IF Len(nonNullTypes) # Len(vtArr)
                  THEN IF nonNullTypes # << >>
                       THEN LET v2 == [variant EXCEPT !.type =
                                         IF Len(nonNullTypes) = 1 THEN nonNullTypes[1]
                                         ELSE JArr(nonNullTypes)]
                                converted == NormalizeJsonSchemaForGemini(v2)
                            IN ChooseVariant(Tail(variants), Keep(converted, chosen), TRUE)
                       ELSE ChooseVariant(Tail(variants), chosen, TRUE)
                  ELSE LET converted == NormalizeJsonSchemaForGemini(variant)
                       IN ChooseVariant(Tail(variants), Keep(converted, chosen), nullable)

(* for (const [k, v] of Object.entries(props)) (lines 373-376) *)
ConvertEntries(entries) ==
  IF entries = << >> THEN << >>
  ELSE LET child == NormalizeJsonSchemaForGemini(entries[1][2])
       IN (IF KeepChild(child) THEN << <<entries[1][1], child>> >> ELSE << >>)
            \o ConvertEntries(Tail(entries))

(* normalizeJsonSchemaForGemini(schema): the translated schema, or         *)
(* Undefined.                                                              *)
NormalizeJsonSchemaForGemini(s) ==
  IF s.t # "schema" THEN Undefined
  ELSE IF AllOfInForce(s)
       THEN MergeBranches(s.allOf.a, Undefined)
  ELSE IF s.anyOf.t = "array" /\ s.anyOf.a # << >>
       THEN ChooseVariant(s.anyOf.a, Undefined, FALSE)
  ELSE IF s.anyOf.t # "array" /\ s.oneOf.t = "array" /\ s.oneOf.a # << >>
       THEN ChooseVariant(s.oneOf.a, Undefined, FALSE)
  ELSE
    LET typeArr == TypeArr(s.type)
        hasTypeArr == s.type.t \in {"array", "string"}
        filtered == SelectSeq(typeArr, NotNullName)
        nullable == hasTypeArr /\ Len(filtered) # Len(typeArr)
        declared == IF hasTypeArr /\ Len(filtered) = 1 THEN ToGeminiType(filtered[1]) ELSE ""
        baseType == IF declared # "" THEN declared ELSE GuessedType(s)
        o1 == WithIf(baseType # "", EmptySchema, "type", baseType)
        o2 == WithIf(nullable, o1, "nullable", TRUE)
        o3 == WithIf(s.description.t = "string" /\ Trim(s.description.s) # "",
                     o2, "description", s.description.s)
        enums == IF s.enum.t = "array" THEN SelectSeq(s.enum.a, IsEnumValue) ELSE << >>
        o4 == WithIf(enums # << >>, o3, "enum", enums)
        isInt == baseType = "INTEGER"
        isNum == baseType = "NUMBER"
        o5 == IF ~(isInt \/ isNum) THEN o4
              ELSE WithBound(o4, "minimum",
                             LowerBound(isInt, s.minimum, s.exclusiveMinimum))
        o6 == IF ~(isInt \/ isNum) THEN o5
              ELSE WithBound(o5, "maximum",
                             UpperBound(isInt, s.maximum, s.exclusiveMaximum))
        o7 == WithIf(s.minItems.t = "number", o6, "minItems", s.minItems.n)
        o8 == WithIf(s.maxItems.t = "number", o7, "maxItems", s.maxItems.n)
        o9 == WithIf(s.minLength.t = "number", o8, "minLength", s.minLength.n)
        o10 == WithIf(s.maxLength.t = "number", o9, "maxLength", s.maxLength.n)
        o11 == WithIf(s.format.t = "string", o10, "format", s.format.s)
        o12 == WithIf(baseType = "ARRAY", o11, "items",
                      NormalizeJsonSchemaForGemini(s.items))
        converted == IF baseType = "OBJECT" /\ s.properties.t = "object"
                     THEN ConvertEntries(s.properties.entries) ELSE << >>
        o13 == WithIf(converted # << >>, o12, "properties", converted)
        req == IF baseType = "OBJECT" /\ s.required.t = "array"
               THEN RequiredNames(s.required.a, converted) ELSE << >>
        o14 == WithIf(req # << >>, o13, "required", req)
        o15 == WithIf(~Has(o14, "type") /\ Has(o14, "enum"), o14, "type", "STRING")
    IN IF ~Has(o15, "type") THEN Undefined ELSE o15

(* The inputs of SpecSchema. *)
StringSchema == [NoKeywords EXCEPT !.type = JStr("string")]

IntegerSchema == [NoKeywords EXCEPT !.type = JStr("integer")]

BranchSchemas ==
  { JNull,
    [NoKeywords EXCEPT !.type = JStr("object"),
                       !.properties = PropertyEntries(<< <<"a", StringSchema>> >>),
                       !.required = JArr(<<JStr("a")>>)],
    [NoKeywords EXCEPT !.type = JStr("object"),
                       !.description = JStr("d"),
                       !.required = JArr(<<JStr("b")>>)],
    [NoKeywords EXCEPT !.required = JArr(<<JStr("a"), JStr("c")>>)],
    [NoKeywords EXCEPT !.type = JStr("String"),
                       !.required = JArr(<<JStr("c")>>)],
    [NoKeywords EXCEPT !.properties = PropertyEntries(<< <<"b", IntegerSchema>> >>),
                       !.required = JArr(<<JStr("b")>>)],
    [NoKeywords EXCEPT !.type = JArr(<<JStr("object"), JStr("null")>>),
                       !.required = JArr(<<JStr("a"), JStr("a")>>)],
    [NoKeywords EXCEPT !.type = JStr("null")],
    [NoKeywords EXCEPT !.type = JArr(<<JStr("string"), JStr("NULL")>>),
                       !.description = JStr("first"),
                       !.enum = JArr(<<JStr("x")>>)],
    [NoKeywords EXCEPT !.type = JStr("string"),
                       !.description = JStr("second"),
                       !.enum = JArr(<<JStr("y")>>)],
    [NoKeywords EXCEPT !.type = JStr("array"), !.items = IntegerSchema],
    [NoKeywords EXCEPT !.type = JStr("array"), !.items = NoKeywords],
    [NoKeywords EXCEPT
       !.type = JStr("object"),
       !.properties = PropertyEntries(
         << <<"p", NoKeywords>>,
            <<"q", [NoKeywords EXCEPT
                      !.type = JStr("array"),
                      !.items = [NoKeywords EXCEPT
                                   !.properties = PropertyEntries(
                                     << <<"r", StringSchema>>,
                                        <<"s", JNull>> >>)]]>> >>),
       !.required = JArr(<<JStr("p"), JStr("q")>>)] }

(* Nodes with a list of type names, alone and beside a combinator. *)
TypeNames ==
  {JStr(n) : n \in {"null", "NULL", "object", "array", "string", "number",
                    "integer", "boolean"}}

TypeLists == UNION {[1..n -> TypeNames] : n \in 0..MaxTypes}

TypeListNodes == {[NoKeywords EXCEPT !.type = JArr(ts)] : ts \in TypeLists}

ObjectSchema == [NoKeywords EXCEPT !.type = JStr("object")]

(* OBJECT nodes whose required list names a property that does not         *)
(* translate, the empty string, a number and a name twice.                 *)
RequiredSchemas ==
  { [NoKeywords EXCEPT
       !.type = t,
       !.properties = PropertyEntries(<< <<"p", NoKeywords>>, <<"a", StringSchema>> >>),
       !.required = JArr(<<JStr("p"), JStr(""), JNum(2), JStr("a"), JStr("p")>>)] :
      t \in {JStr("object"), Undefined, JArr(<<JStr("null"), JStr("OBJECT")>>)} }
    \cup {[NoKeywords EXCEPT !.type = JStr("object"),
                              !.required = JArr(<<JStr(""), JNull>>)],
           [NoKeywords EXCEPT !.type = JStr("object"),
                              !.properties = PropertyEntries(<< <<"p", NoKeywords>> >>),
                              !.required = JArr(<<JStr("p")>>)]}

(* Nodes with description, type, properties, required and enum written    *)
(* beside their combinators.                                               *)
BesideKeywords ==
  [NoKeywords EXCEPT !.description = JStr("beside"),
                     !.type = JStr("string"),
                     !.properties = PropertyEntries(<< <<"x", IntegerSchema>> >>),
                     !.required = JArr(<<JStr("x")>>),
                     !.enum = JArr(<<JStr("e")>>)]

BesideBranches ==
  {<<JNull>>, <<[NoKeywords EXCEPT !.type = JStr("null")]>>,
   <<[ObjectSchema EXCEPT !.required = JArr(<<JStr("a")>>)]>>,
   <<IntegerSchema, [StringSchema EXCEPT !.description = JStr("second")]>>}

BesideSchemas ==
  {[BesideKeywords EXCEPT !.allOf = allOf, !.anyOf = anyOf, !.oneOf = oneOf] :
     allOf \in {Undefined, JArr(<< >>), JArr(<<ObjectSchema>>)},
     anyOf \in {Undefined, JArr(<< >>)} \cup {JArr(bs) : bs \in BesideBranches},
     oneOf \in {Undefined} \cup {JArr(bs) : bs \in BesideBranches}}

JsonSchemas ==
  BranchSchemas
    \cup RequiredSchemas
    \cup BesideSchemas
    \cup TypeListNodes
    \cup {[n EXCEPT !.allOf = JArr(<<ObjectSchema>>)] : n \in TypeListNodes}
    \cup {[n EXCEPT !.anyOf = JArr(<<ObjectSchema>>)] : n \in TypeListNodes}
    \cup {[n EXCEPT !.anyOf = JArr(<< >>), !.oneOf = JArr(<<ObjectSchema>>)] :
            n \in TypeListNodes}

(* Nodes with numeric bounds: the bound values are halves from            *)
(* -MaxHalves/2 to MaxHalves/2, and a string where a number is expected.   *)
BoundValues == {JNum(n) : n \in (0 - MaxHalves)..MaxHalves}

NumericTypes ==
  {JStr("integer"), JStr("number"), JStr("string"), JStr("object"), Undefined}

(* A node without a type carries an enum that makes it an INTEGER. *)
NumericNode(type, minimum, exclusiveMinimum, maximum, exclusiveMaximum) ==
  [NoKeywords EXCEPT !.type = type,
                     !.enum = IF type = Undefined THEN JArr(<<JNum(2)>>) ELSE Undefined,
                     !.minimum = minimum, !.exclusiveMinimum = exclusiveMinimum,
                     !.maximum = maximum, !.exclusiveMaximum = exclusiveMaximum]

(* A node with a list of branches under one combinator; an allOf also      *)
(* beside a type and a required list of its own.                           *)
Combinators == {"allOf", "allOfTyped", "anyOf", "oneOf"}

CombinatorNode(combinator, bs) ==
  CASE combinator = "allOf" -> [NoKeywords EXCEPT !.allOf = JArr(bs)]
    [] combinator = "allOfTyped" ->
         [NoKeywords EXCEPT !.allOf = JArr(bs), !.type = JStr("object"),
                            !.required = JArr(<<JStr("z")>>)]
    [] combinator = "anyOf" -> [NoKeywords EXCEPT !.anyOf = JArr(bs)]
    [] combinator = "oneOf" -> [NoKeywords EXCEPT !.oneOf = JArr(bs)]

(* SpecSchema: one call of normalizeJsonSchemaForGemini; the function      *)
(* keeps no state, so a behaviour makes one call.                          *)
Normalize(schema) ==
  /\ ~sch.made
  /\ sch' = [made |-> TRUE, schema |-> schema,
             result |-> NormalizeJsonSchemaForGemini(schema)]
  /\ UNCHANGED <<fs, now, seqlog, pend, pc, loc, hist, call, asm, conv, fwd, yl>>

NextSchema ==
  /\ ~sch.made
  /\ \/ \E schema \in JsonSchemas : Normalize(schema)
     \/ \E n \in 0..MaxBranches : \E bs \in [1..n -> BranchSchemas] :
          \E combinator \in Combinators : Normalize(CombinatorNode(combinator, bs))
     \/ \E type \in NumericTypes :
          \E minimum \in {Undefined} \cup BoundValues,
             exclusiveMinimum \in {Undefined, JStr("1")} \cup BoundValues,
             maximum \in {Undefined} \cup BoundValues,
             exclusiveMaximum \in {Undefined, JStr("1")} \cup BoundValues :
            Normalize(NumericNode(type, minimum, exclusiveMinimum,
                                  maximum, exclusiveMaximum))

SpecSchema == Init /\ [][NextSchema]_vars

(* The call translated a node with a non-empty allOf. *)
AllOfTranslated ==
  /\ sch.made
  /\ sch.schema.t = "schema"
  /\ sch.schema.allOf.t = "array"
  /\ sch.schema.allOf.a # << >>

(* The names of the required list of a translated schema. *)
RequiredOf(o) ==
  IF o = Undefined THEN {}
  ELSE {ListOf(o, "required")[i] : i \in DOMAIN ListOf(o, "required")}

(* The names of the required list a branch is written with. *)
WrittenRequiredOf(branch) ==
  IF branch.t = "schema" /\ branch.required.t = "array"
  THEN {branch.required.a[i].s : i \in {j \in DOMAIN branch.required.a :
                                            branch.required.a[j].t = "string"}}
  ELSE {}

(* C20, as claimed with the branches read as written: the required list   *)
(* of the translation of an allOf node is the set union of the required    *)
(* lists its branches are written with.  Violated.                         *)
RequiredUnionOfBranches ==
  AllOfTranslated =>
    RequiredOf(sch.result)
      = UNION {WrittenRequiredOf(sch.schema.allOf.a[i]) : i \in DOMAIN sch.schema.allOf.a}

(* C20: the required list of the translation of an allOf node is the set   *)
(* union of the required lists of the translations of its branches; a      *)
(* branch that does not translate, or translates to a schema that is not   *)
(* an OBJECT, contributes no name.                                         *)
RequiredUnionOfTranslations ==
  AllOfTranslated =>
    RequiredOf(sch.result)
      = UNION {RequiredOf(NormalizeJsonSchemaForGemini(sch.schema.allOf.a[i])) :
                 i \in DOMAIN sch.schema.allOf.a}

(* Two branches translate with different non-empty required lists and the  *)
(* result requires the names of both.                                      *)
RequiredUnionWitness ==
  /\ AllOfTranslated
  /\ \E i, j \in DOMAIN sch.schema.allOf.a :
       LET ri == RequiredOf(NormalizeJsonSchemaForGemini(sch.schema.allOf.a[i]))
           rj == RequiredOf(NormalizeJsonSchemaForGemini(sch.schema.allOf.a[j]))
       IN /\ ri # {} /\ rj # {} /\ ri \cap rj = {}
          /\ ri \cup rj \subseteq RequiredOf(sch.result)

(* A combinator of the node is translated instead of its own keywords      *)
(* (lines 268, 280-281).                                                   *)
Combined(s) ==
  \/ s.allOf.t = "array" /\ s.allOf.a # << >>
  \/ s.anyOf.t = "array" /\ s.anyOf.a # << >>
  \/ s.anyOf.t # "array" /\ s.oneOf.t = "array" /\ s.oneOf.a # << >>

ScalarNames == {"object", "array", "string", "number", "integer", "boolean"}

(* The names of a type list other than "null". *)
OtherNames(s) == SelectSeq(s.type.a, LAMBDA x : x # JStr("null"))

(* The type of the node is a list holding "null" and exactly one other     *)
(* name, one of the six type names.                                        *)
NullPlusOne(s) ==
  /\ s.t = "schema"
  /\ s.type.t = "array"
  /\ \E i \in DOMAIN s.type.a : s.type.a[i] = JStr("null")
  /\ Len(OtherNames(s)) = 1
  /\ OtherNames(s)[1].s \in ScalarNames

UpperCaseName(n) ==
  CASE n = "object" -> "OBJECT" [] n = "array" -> "ARRAY" [] n = "string" -> "STRING"
    [] n = "number" -> "NUMBER" [] n = "integer" -> "INTEGER" [] n = "boolean" -> "BOOLEAN"

(* The result is nullable and typed with the one other name of the list. *)
NullableOfOther ==
  /\ sch.result # Undefined
  /\ Has(sch.result, "nullable") /\ sch.result.nullable = TRUE
  /\ Has(sch.result, "type")
  /\ sch.result.type = UpperCaseName(OtherNames(sch.schema)[1].s)

(* C21, as claimed for every node: a type list of "null" and one other     *)
(* name translates to nullable = true and that name in upper case.         *)
(* Violated by a node that also has a combinator.                          *)
NullableTypeListAnyNode == sch.made /\ NullPlusOne(sch.schema) => NullableOfOther

(* C21: a node without a combinator whose type is a list of "null" and     *)
(* exactly one other type name translates to nullable = true and that      *)
(* name in upper case.                                                     *)
NullableTypeList ==
  sch.made /\ NullPlusOne(sch.schema) /\ ~Combined(sch.schema) => NullableOfOther

NullableTypeListWitness ==
  /\ sch.made
  /\ NullPlusOne(sch.schema)
  /\ ~Combined(sch.schema)
  /\ sch.schema.type.a[1] = JStr("integer")
  /\ sch.result.type = "INTEGER"
  /\ sch.result.nullable = TRUE

(* The call translated a node through its anyOf, or through its oneOf. *)
UnionTranslated ==
  /\ sch.made
  /\ sch.schema.t = "schema"
  /\ ~(sch.schema.allOf.t = "array" /\ sch.schema.allOf.a # << >>)
  /\ Combined(sch.schema)

(* The branches the union is read from. *)
UnionOf(s) == IF s.anyOf.t = "array" THEN s.anyOf.a ELSE s.oneOf.a

(* The type of a branch names "null". *)
NamesNull(v) ==
  v.t = "schema" /\ \E i \in DOMAIN TypeArr(v.type) : IsNullName(TypeArr(v.type)[i])

(* The first index of a set of indices, 0 when there is none. *)
FirstOf(is) == IF is = {} THEN 0 ELSE CHOOSE i \in is : \A j \in is : i <= j

LastOf(is) == IF is = {} THEN 0 ELSE CHOOSE i \in is : \A j \in is : j <= i

(* The translation of branch number i, nullable when a branch names null;  *)
(* absent for i = 0.                                                       *)
KeptWithNullable(translations, i, nullable) ==
  IF i = 0 THEN Undefined ELSE WithIf(nullable, translations[i], "nullable", TRUE)

(* C28, as claimed: a branch that names null only sets nullable and is     *)
(* never the kept branch; the result is the translation of the first       *)
(* other branch that translates.  Violated.                                *)
NullBranchesSkipped ==
  UnionTranslated =>
    LET vs == UnionOf(sch.schema)
        ts == [i \in DOMAIN vs |-> NormalizeJsonSchemaForGemini(vs[i])]
        kept == FirstOf({i \in DOMAIN vs : ~NamesNull(vs[i]) /\ ts[i] # Undefined})
    IN sch.result = KeptWithNullable(ts, kept, \E i \in DOMAIN vs : NamesNull(vs[i]))

(* A branch without the null names of its type; absent when no name is     *)
(* left.                                                                   *)
WithoutNull(v) ==
  IF ~NamesNull(v) THEN v
  ELSE LET others == SelectSeq(TypeArr(v.type), NotNullName)
       IN IF others = << >> THEN Undefined
          ELSE [v EXCEPT !.type = IF Len(others) = 1 THEN others[1] ELSE JArr(others)]

(* C28: a branch that names null sets nullable; when null is its only type *)
(* name it is skipped, otherwise it stands as a branch with the null names *)
(* removed.  The result is the translation of the first branch that        *)
(* translates, with nothing of the others but the nullable flag; it is     *)
(* absent when no branch translates.                                       *)
FirstTranslatedVariant ==
  UnionTranslated =>
    LET vs == UnionOf(sch.schema)
        ts == [i \in DOMAIN vs |-> NormalizeJsonSchemaForGemini(WithoutNull(vs[i]))]
        kept == FirstOf({i \in DOMAIN vs : ts[i] # Undefined})
    IN sch.result = KeptWithNullable(ts, kept, \E i \in DOMAIN vs : NamesNull(vs[i]))

(* A null branch, then two different branches that translate: the result   *)
(* is the second branch's translation, made nullable.                      *)
FirstTranslatedVariantWitness ==
  /\ UnionTranslated
  /\ Len(UnionOf(sch.schema)) = 3
  /\ UnionOf(sch.schema)[1].t = "schema"
  /\ UnionOf(sch.schema)[1].type = JStr("null")
  /\ NormalizeJsonSchemaForGemini(UnionOf(sch.schema)[2]) # Undefined
  /\ NormalizeJsonSchemaForGemini(UnionOf(sch.schema)[3]) # Undefined
  /\ NormalizeJsonSchemaForGemini(UnionOf(sch.schema)[3])
       # NormalizeJsonSchemaForGemini(UnionOf(sch.schema)[2])
  /\ ~NamesNull(UnionOf(sch.schema)[2])
  /\ sch.result # Undefined
  /\ sch.result.nullable = TRUE
  /\ sch.result
       = With(NormalizeJsonSchemaForGemini(UnionOf(sch.schema)[2]), "nullable", TRUE)

(* The translations of the branches of the allOf node, in order. *)
BranchTranslations ==
  [i \in DOMAIN sch.schema.allOf.a |->
     NormalizeJsonSchemaForGemini(sch.schema.allOf.a[i])]

(* The branches whose translation has key k set. *)
BranchesWith(k) ==
  {i \in DOMAIN BranchTranslations :
     /\ BranchTranslations[i] # Undefined
     /\ Has(BranchTranslations[i], k)
     /\ k = "items" => BranchTranslations[i].items # Undefined}

(* Key k of the result is that of branch number i; unset for i = 0. *)
TakenFrom(k, i) ==
  IF i = 0 THEN ~Has(sch.result, k) \/ (k = "items" /\ sch.result.items = Undefined)
  ELSE Has(sch.result, k) /\ sch.result[k] = BranchTranslations[i][k]

(* C29: the description of a merged allOf is that of the first branch that *)
(* has one, nullable is the OR of the branches' flags, items and enum are  *)
(* those of the last branch that has them.  Violated: the description is   *)
(* that of the last branch that has one.                                   *)
AllOfMergeRule ==
  AllOfTranslated /\ sch.result # Undefined =>
    /\ TakenFrom("description", FirstOf(BranchesWith("description")))
    /\ Has(sch.result, "nullable") <=> BranchesWith("nullable") # {}
    /\ TakenFrom("items", LastOf(BranchesWith("items")))
    /\ TakenFrom("enum", LastOf(BranchesWith("enum")))

(* What the merge does: every one of the four keys follows its rule, the   *)
(* description being that of the last branch that has one.                 *)
AllOfKeepsLastDescription ==
  AllOfTranslated /\ sch.result # Undefined =>
    /\ TakenFrom("description", LastOf(BranchesWith("description")))
    /\ Has(sch.result, "nullable") <=> BranchesWith("nullable") # {}
    /\ TakenFrom("items", LastOf(BranchesWith("items")))
    /\ TakenFrom("enum", LastOf(BranchesWith("enum")))

TypeTags == {"OBJECT", "ARRAY", "STRING", "NUMBER", "INTEGER", "BOOLEAN"}

RECURSIVE WellTyped(_)

(* The node, every entry of its properties and its items node carry a type *)
(* tag, at every depth.                                                    *)
WellTyped(o) ==
  /\ o # Undefined
  /\ Has(o, "type")
  /\ o.type \in TypeTags
  /\ Has(o, "properties") =>
       \A i \in DOMAIN o.properties : WellTyped(o.properties[i][2])
  /\ HasItems(o) => WellTyped(o.items)

(* C30: every node of a translated schema is typed: the root, every entry  *)
(* of properties and every items node, at every depth.                     *)
EveryNodeTyped == sch.made /\ sch.result # Undefined => WellTyped(sch.result)

(* A property without a derivable type was left out of an OBJECT whose     *)
(* other property, an ARRAY of guessed OBJECTs, was kept.                  *)
EveryNodeTypedWitness ==
  /\ sch.made
  /\ sch.schema.t = "schema"
  /\ ~Combined(sch.schema)
  /\ sch.schema.properties.t = "object"
  /\ Len(sch.schema.properties.entries) = 2
  /\ sch.result # Undefined
  /\ Len(sch.result.properties) = 1
  /\ sch.result.properties[1][1] = "q"
  /\ sch.result.properties[1][2].items.type = "OBJECT"
  /\ Len(sch.result.properties[1][2].items.properties) = 1

(* No combinator is in force on the node: it is translated from its own    *)
(* keywords.                                                               *)
OwnKeywords(s) ==
  /\ s.t = "schema"
  /\ ~(s.allOf.t = "array" /\ s.allOf.a # << >>)
  /\ ~(s.anyOf.t = "array" /\ s.anyOf.a # << >>)
  /\ ~(s.anyOf.t # "array" /\ s.oneOf.t = "array" /\ s.oneOf.a # << >>)

(* The call translated a node of its own keywords to an OBJECT. *)
ObjectTranslated ==
  /\ sch.made
  /\ OwnKeywords(sch.schema)
  /\ sch.result # Undefined
  /\ sch.result.type = "OBJECT"

(* The names among the written entries of a required list, in order. *)
WrittenNames(required) ==
  LET kept == SelectSeq(required, LAMBDA r : r.t = "string" /\ r.s # "")
  IN [i \in DOMAIN kept |-> kept[i].s]

(* C31: the required list of a translated OBJECT node holds every          *)
(* non-empty string name of the source list, in source order, also the     *)
(* names whose property did not translate; no list is set when there is    *)
(* no such name.                                                           *)
RequiredOutliveProperties ==
  ObjectTranslated =>
    ListOf(sch.result, "required")
      = IF sch.schema.required.t = "array" THEN WrittenNames(sch.schema.required.a)
        ELSE << >>

(* The property p did not translate and the list still names it, twice,    *)
(* around a; the empty string and the number are gone.                     *)
RequiredOutlivePropertiesWitness ==
  /\ ObjectTranslated
  /\ sch.schema.required = JArr(<<JStr("p"), JStr(""), JNum(2), JStr("a"), JStr("p")>>)
  /\ sch.result.required = <<"p", "a", "p">>
  /\ \A i \in DOMAIN sch.result.properties : sch.result.properties[i][1] # "p"

(* The call translated a node of its own keywords. *)
OwnTranslated == sch.made /\ OwnKeywords(sch.schema) /\ sch.result # Undefined

(* The integers the bounds are compared on, as halves. *)
IntegerValues == {2 * i : i \in (0 - MaxHalves - 2)..(MaxHalves + 2)}

(* C32: an INTEGER node with only exclusiveMinimum e gets the minimum      *)
(* floor(e)+1, and with only exclusiveMaximum e the maximum ceil(e)-1: an  *)
(* integer satisfies the emitted bound exactly when it satisfies the       *)
(* exclusive one.  A NUMBER node gets e itself.  A node of any other type  *)
(* gets no minimum and no maximum.                                         *)
ExclusiveBounds ==
  OwnTranslated =>
    LET s == sch.schema
        o == sch.result
        onlyExclusiveMin == s.minimum.t # "number" /\ s.exclusiveMinimum.t = "number"
        onlyExclusiveMax == s.maximum.t # "number" /\ s.exclusiveMaximum.t = "number"
    IN /\ (o.type = "INTEGER" /\ onlyExclusiveMin) =>
            /\ Has(o, "minimum")
            /\ o.minimum = s.exclusiveMinimum.n - (s.exclusiveMinimum.n % 2) + 2
            /\ \A x \in IntegerValues : x >= o.minimum <=> x > s.exclusiveMinimum.n
       /\ (o.type = "INTEGER" /\ onlyExclusiveMax) =>
            /\ Has(o, "maximum")
            /\ o.maximum = s.exclusiveMaximum.n + (s.exclusiveMaximum.n % 2) - 2
            /\ \A x \in IntegerValues : x <= o.maximum <=> x < s.exclusiveMaximum.n
       /\ (o.type = "NUMBER" /\ onlyExclusiveMin) =>
            (Has(o, "minimum") /\ o.minimum = s.exclusiveMinimum.n)
       /\ (o.type = "NUMBER" /\ onlyExclusiveMax) =>
            (Has(o, "maximum") /\ o.maximum = s.exclusiveMaximum.n)
       /\ o.type \notin {"INTEGER", "NUMBER"} =>
            (~Has(o, "minimum") /\ ~Has(o, "maximum"))

(* An INTEGER node with exclusiveMinimum -1.5 and exclusiveMaximum 1 was   *)
(* given the minimum -1 and the maximum 0.                                 *)
ExclusiveBoundsWitness ==
  /\ OwnTranslated
  /\ sch.schema.type = JStr("integer")
  /\ sch.schema.minimum = Undefined /\ sch.schema.maximum = Undefined
  /\ sch.schema.exclusiveMinimum = JNum(-3)
  /\ sch.schema.exclusiveMaximum = JNum(2)
  /\ sch.result.minimum = -2
  /\ sch.result.maximum = 0

(* C39: an INTEGER or NUMBER node with both minimum and exclusiveMinimum   *)
(* gets the value of minimum, and with both maximum and exclusiveMaximum   *)
(* the value of maximum, whatever the exclusive bound is.                  *)
InclusiveBoundWins ==
  (OwnTranslated /\ sch.result.type \in {"INTEGER", "NUMBER"}) =>
    LET s == sch.schema
        o == sch.result
    IN /\ (s.minimum.t = "number" /\ s.exclusiveMinimum.t = "number") =>
            (Has(o, "minimum") /\ o.minimum = s.minimum.n)
       /\ (s.maximum.t = "number" /\ s.exclusiveMaximum.t = "number") =>
            (Has(o, "maximum") /\ o.maximum = s.maximum.n)

(* An INTEGER node with minimum 0 and the stricter exclusiveMinimum 1 was  *)
(* given the minimum 0: the emitted range admits 0 and 1, which the source *)
(* rejects.                                                                *)
InclusiveBoundWinsWitness ==
  /\ OwnTranslated
  /\ sch.result.type = "INTEGER"
  /\ sch.schema.minimum = JNum(0)
  /\ sch.schema.exclusiveMinimum = JNum(2)
  /\ sch.result.minimum = 0
  /\ \E x \in IntegerValues : x >= sch.result.minimum /\ ~(x > sch.schema.exclusiveMinimum.n)

NonEmptyList(v) == v.t = "array" /\ v.a # << >>

(* C38 as stated: a node with a non-empty allOf, or otherwise a non-empty  *)
(* anyOf, or otherwise a non-empty oneOf, is translated from the branches  *)
(* of that list only.                                                      *)
BesideCombinatorIgnored ==
  (sch.made /\ sch.schema.t = "schema") =>
    LET s == sch.schema
    IN /\ NonEmptyList(s.allOf) => sch.result = MergeBranches(s.allOf.a, Undefined)
       /\ (~NonEmptyList(s.allOf) /\ NonEmptyList(s.anyOf)) =>
            sch.result = ChooseVariant(s.anyOf.a, Undefined, FALSE)
       /\ (~NonEmptyList(s.allOf) /\ ~NonEmptyList(s.anyOf) /\ NonEmptyList(s.oneOf)) =>
            sch.result = ChooseVariant(s.oneOf.a, Undefined, FALSE)

(* C38: a node with a non-empty allOf, or otherwise a non-empty anyOf, or  *)
(* otherwise no anyOf list at all and a non-empty oneOf, is translated     *)
(* from the branches of that list only; a node with an empty anyOf list    *)
(* and a non-empty oneOf is translated from its own keywords.              *)
BesideCombinatorInForceIgnored ==
  (sch.made /\ sch.schema.t = "schema") =>
    LET s == sch.schema
    IN /\ NonEmptyList(s.allOf) => sch.result = MergeBranches(s.allOf.a, Undefined)
       /\ (~NonEmptyList(s.allOf) /\ NonEmptyList(s.anyOf)) =>
            sch.result = ChooseVariant(s.anyOf.a, Undefined, FALSE)
       /\ (~NonEmptyList(s.allOf) /\ s.anyOf.t # "array" /\ NonEmptyList(s.oneOf)) =>
            sch.result = ChooseVariant(s.oneOf.a, Undefined, FALSE)
       /\ (~NonEmptyList(s.allOf) /\ s.anyOf = JArr(<< >>) /\ NonEmptyList(s.oneOf)) =>
            sch.result
              = NormalizeJsonSchemaForGemini([s EXCEPT !.anyOf = Undefined,
                                                       !.oneOf = Undefined])

(* A node with allOf [object] beside a description, the type string,       *)
(* properties, a required list and an enum: the result is the bare OBJECT  *)
(* of the branch.                                                          *)
BesideCombinatorInForceIgnoredWitness ==
  /\ sch.made
  /\ sch.schema.t = "schema"
  /\ sch.schema.allOf = JArr(<<ObjectSchema>>)
  /\ sch.schema.description = JStr("beside")
  /\ sch.schema.type = JStr("string")
  /\ sch.schema.enum = JArr(<<JStr("e")>>)
  /\ sch.result = With(EmptySchema, "type", "OBJECT")

----------------------------------------------------------------------------
(* The request builder: extractSystemText, buildGeminiToolDeclarations and *)
(* the geminiRequest of interceptedFetch (lines 873-891).                  *)

MaxSystemItems == 2

(* The texts of the system field are sequences of characters. *)
IsSpace(c) == c \in {" ", "\n"}

RECURSIVE TrimStart(_), TrimEnd(_), Join(_), Chunks(_)

TrimStart(cs) ==
  IF cs # << >> /\ IsSpace(Head(cs)) THEN TrimStart(Tail(cs)) ELSE cs

TrimEnd(cs) ==
  IF cs # << >> /\ IsSpace(cs[Len(cs)]) THEN TrimEnd(SubSeq(cs, 1, Len(cs) - 1)) ELSE cs

(* String.prototype.trim *)
TrimChars(cs) == TrimEnd(TrimStart(cs))

(* chunks.join('\n') *)
Join(chunks) ==
  IF chunks = << >> THEN << >>
  ELSE IF Len(chunks) = 1 THEN chunks[1]
  ELSE chunks[1] \o <<"\n">> \o Join(Tail(chunks))

(* !x for the values the system field and its items can be. *)
FalsyText(v) == v.t \in {"undefined", "null"} \/ (v.t = "string" /\ v.s = << >>)

(* A block of the system list: type is "" when the block has no type key. *)
SystemBlock(type, text) == [t |-> "object", type |-> type, text |-> text]

(* The chunks pushed by the loop of lines 182-192. *)
Chunks(items) ==
  IF items = << >> THEN << >>
  ELSE LET item == Head(items)
       IN (IF FalsyText(item) THEN << >>
           ELSE IF item.t = "string" THEN <<item.s>>
           ELSE IF item.t = "object" /\ item.type = "text" /\ item.text.t = "string"
                THEN <<item.text.s>>
           ELSE << >>)
            \o Chunks(Tail(items))

(* extractSystemText(system): a text, or Undefined. *)
ExtractSystemText(system) ==
  IF FalsyText(system) THEN Undefined
  ELSE IF system.t = "string" THEN system
  ELSE IF system.t = "array"
       THEN LET joined == TrimChars(Join(Chunks(system.a)))
            IN IF joined = << >> THEN Undefined ELSE JStr(joined)
  ELSE Undefined

(* A tool of the request, by the properties buildGeminiToolDeclarations    *)
(* reads.                                                                  *)
ToolIn(name, description, input_schema) ==
  [t |-> "tool", name |-> name, description |-> description,
   input_schema |-> input_schema]

(* typeof name === 'string' && name, on an object (lines 401-403) *)
IsNamedTool(tool) == tool.t = "tool" /\ tool.name.t = "string" /\ tool.name.s # ""

(* rawSchema ? normalizeJsonSchemaForGemini(rawSchema) : undefined *)
ParametersOf(tool) ==
  IF tool.input_schema.t = "schema"
  THEN NormalizeJsonSchemaForGemini(tool.input_schema) ELSE Undefined

(* { name, ...(description ? { description } : {}),                        *)
(*   ...(parameters ? { parameters } : {}) } (lines 407-411)               *)
DeclarationOf(tool, parameters) ==
  LET d0 == With(EmptySchema, "name", tool.name.s)
      d1 == WithIf(tool.description.t = "string" /\ tool.description.s # "",
                   d0, "description", tool.description.s)
  IN WithIf(parameters # Undefined, d1, "parameters", parameters)

Declaration(tool) == DeclarationOf(tool, ParametersOf(tool))

RECURSIVE Declarations(_)

(* for (const t of tools) (lines 400-412) *)
Declarations(tools) ==
  IF tools = << >> THEN << >>
  ELSE (IF IsNamedTool(Head(tools)) THEN <<Declaration(Head(tools))>> ELSE << >>)
         \o Declarations(Tail(tools))

(* The wrapper returned whatever the list holds. *)
WrapDeclarationsAlways(functionDeclarations) ==
  JArr(<<[functionDeclarations |-> functionDeclarations]>>)

(* if (functionDeclarations.length === 0) return undefined;                *)
(* return [{ functionDeclarations }] (lines 414-415)                       *)
WrapDeclarations(functionDeclarations) ==
  IF functionDeclarations = << >> THEN Undefined
  ELSE JArr(<<[functionDeclarations |-> functionDeclarations]>>)

(* buildGeminiToolDeclarations(tools) *)
BuildGeminiToolDeclarations(tools) ==
  IF tools.t # "array" \/ tools.a = << >> THEN Undefined
  ELSE WrapDeclarations(Declarations(tools.a))

(* The parsed request body, by the properties the translating branch reads. *)
ParsedBody(messages, system, tools, max_tokens) ==
  [messages |-> messages, system |-> system, tools |-> tools,
   max_tokens |-> max_tokens, temperature |-> Undefined,
   top_p |-> Undefined, top_k |-> Undefined]

(* generationConfig (lines 880-884) *)
GenerationConfig(parsed) ==
  LET g1 == WithIf(parsed.max_tokens.t = "number", EmptySchema,
                   "maxOutputTokens", parsed.max_tokens)
      g2 == WithIf(parsed.temperature.t = "number", g1, "temperature", parsed.temperature)
      g3 == WithIf(parsed.top_p.t = "number", g2, "topP", parsed.top_p)
      g4 == WithIf(parsed.top_k.t = "number", g3, "topK", parsed.top_k)
  IN g4

AutoToolConfig == [functionCallingConfig |-> [mode |-> "AUTO"]]

(* const geminiRequest = { contents, ... } (lines 886-891) *)
GeminiRequestOf(contents, systemText, tools, generationConfig) ==
  LET r0 == With(EmptySchema, "contents", contents)
      r1 == WithIf(~FalsyText(systemText), r0, "systemInstruction",
                   [parts |-> <<[text |-> systemText.s]>>])
      r2 == IF tools # Undefined
            THEN With(With(r1, "tools", tools.a), "toolConfig", AutoToolConfig)
            ELSE r1
  IN WithIf(DOMAIN generationConfig # {}, r2, "generationConfig", generationConfig)

(* geminiRequest (lines 876-891) *)
GeminiRequest(parsed) ==
  GeminiRequestOf(BuildGeminiContents(parsed.messages, NoToolUses).contents,
                  ExtractSystemText(parsed.system),
                  BuildGeminiToolDeclarations(parsed.tools),
                  GenerationConfig(parsed))

(* The inputs of SpecRequest. *)
SystemTexts == {<< >>, <<" ">>, <<"a">>, <<" ", "a", "\n">>}

SystemItems ==
  { JNull,
    JStr(<<" ", "b">>),
    SystemBlock("text", JStr(<<"c", " ">>)),
    SystemBlock("text", JNum(1)),
    SystemBlock("image", JStr(<<"d">>)) }

SystemFields ==
  {Undefined, JNum(1)}
    \cup {JStr(cs) : cs \in SystemTexts}
    \cup {JArr(items) : items \in UNION {[1..n -> SystemItems] : n \in 0..MaxSystemItems}}

DeclarableTools ==
  { JNull,
    ToolIn(Undefined, JStr("d"), ObjectSchema),
    ToolIn(JStr(""), Undefined, ObjectSchema),
    ToolIn(JStr("a"), JStr("d"), Undefined),
    ToolIn(JStr("b"), JStr(""), NoKeywords),
    ToolIn(JStr("c"), Undefined,
           [NoKeywords EXCEPT !.type = JStr("object"),
                              !.properties = PropertyEntries(<< <<"q", StringSchema>> >>),
                              !.required = JArr(<<JStr("q")>>)]) }

ToolFields ==
  {Undefined} \cup {JArr(ts) : ts \in UNION {[1..n -> DeclarableTools] : n \in 0..MaxTools}}

ParsedBodiesForGemini ==
  {ParsedBody(JArr(<<Message(TRUE, JStr("user"), JStr("hi"))>>), system, tools, max_tokens) :
     system \in SystemFields, tools \in ToolFields, max_tokens \in {Undefined, JNum(2)}}

(* SpecRequest: the geminiRequest of one call on the translating branch.   *)
BuildRequest(parsed) ==
  /\ ~greq.made
  /\ greq' = [made |-> TRUE, parsed |-> parsed, request |-> GeminiRequest(parsed)]
  /\ UNCHANGED <<fs, now, seqlog, pend, pc, loc, hist, call, asm, conv, fwd, sch, zl>>

NextRequest == ~greq.made /\ \E parsed \in ParsedBodiesForGemini : BuildRequest(parsed)

SpecRequest == Init /\ [][NextRequest]_vars

(* The tools of the body that get a declaration, in input order. *)
NamedTools(parsed) ==
  IF parsed.tools.t = "array" THEN SelectSeq(parsed.tools.a, IsNamedTool) ELSE << >>

(* The request with the keys of the tool declarations left out. *)
WithoutTools(request) ==
  [k \in DOMAIN request \ {"tools", "toolConfig"} |-> request[k]]

(* C22: the request holds one function declaration for each tool with a    *)
(* non-empty string name, in input order; a declaration has parameters     *)
(* exactly when the tool's input schema translates; the rest of the        *)
(* request is what it is without tools; with no named tool, tools and      *)
(* toolConfig are omitted.                                                 *)
ToolDeclarationsDegrade ==
  greq.made =>
    LET named == NamedTools(greq.parsed)
        request == greq.request
    IN /\ WithoutTools(request) = GeminiRequest([greq.parsed EXCEPT !.tools = Undefined])
       /\ IF named = << >>
          THEN ~Has(request, "tools") /\ ~Has(request, "toolConfig")
          ELSE /\ Has(request, "tools") /\ Has(request, "toolConfig")
               /\ request.toolConfig = AutoToolConfig
               /\ Len(request.tools) = 1
               /\ LET decls == request.tools[1].functionDeclarations
                  IN /\ Len(decls) = Len(named)
                     /\ \A k \in DOMAIN named :
                          /\ decls[k].name = named[k].name.s
                          /\ IF named[k].input_schema.t = "schema"
                                /\ NormalizeJsonSchemaForGemini(named[k].input_schema)
                                     # Undefined
                             THEN /\ Has(decls[k], "parameters")
                                  /\ decls[k].parameters
                                       = NormalizeJsonSchemaForGemini(named[k].input_schema)
                             ELSE ~Has(decls[k], "parameters")

(* A tool without a name and a named tool whose schema does not translate: *)
(* one declaration, without parameters, and the system text still sent.    *)
ToolDeclarationsDegradeWitness ==
  /\ greq.made
  /\ greq.parsed.tools.t = "array"
  /\ Len(greq.parsed.tools.a) = 2
  /\ Len(NamedTools(greq.parsed)) = 1
  /\ NamedTools(greq.parsed)[1].input_schema = NoKeywords
  /\ Len(greq.request.tools[1].functionDeclarations) = 1
  /\ ~Has(greq.request.tools[1].functionDeclarations[1], "parameters")
  /\ Has(greq.request, "systemInstruction")

(* The text items of a system field: the string itself, or the strings and *)
(* the text blocks of the list.                                            *)
TextItems(system) ==
  IF system.t = "string" THEN <<system.s>>
  ELSE IF system.t = "array" THEN Chunks(system.a)
  ELSE << >>

(* The system instruction of the request is the text cs; none when cs is   *)
(* empty.                                                                  *)
InstructionIs(cs) ==
  IF cs = << >> THEN ~Has(greq.request, "systemInstruction")
  ELSE /\ Has(greq.request, "systemInstruction")
       /\ greq.request.systemInstruction = [parts |-> <<[text |-> cs]>>]

(* C23: for a system field that is a string or a list, the system          *)
(* instruction is the newline-joined text of its text items, trimmed, and  *)
(* is left out of the request when that text is empty.  Violated by a      *)
(* string with blanks around it, and by a string of blanks.                *)
SystemTextTrimmed ==
  greq.made /\ greq.parsed.system.t \in {"string", "array"} =>
    InstructionIs(TrimChars(Join(TextItems(greq.parsed.system))))

(* What the builder does: a list is joined and trimmed, a string is sent   *)
(* as it is written.                                                       *)
SystemTextOfListTrimmed ==
  greq.made =>
    IF greq.parsed.system.t = "array"
    THEN InstructionIs(TrimChars(Join(TextItems(greq.parsed.system))))
    ELSE IF greq.parsed.system.t = "string"
         THEN InstructionIs(greq.parsed.system.s)
         ELSE InstructionIs(<< >>)

(* C26: a call on the translating branch (a watched POST whose body is a   *)
(* string, under a Gemini base URL) with an API key and no exception       *)
(* makes exactly one network call: a POST to                               *)
(* <normalized base>/<normalized model id>:generateContent with the key in *)
(* the x-goog-api-key header; the URL the caller asked for is never        *)
(* contacted.                                                              *)
OneNativeCall ==
  /\ AtDone
  /\ Translating(call) /\ IsStringBody(call.req.body)
  /\ ~KeyMissing(call.env.apiKey)
  /\ ~call.raised
  =>
    /\ call.net = <<NativeCall>>
    /\ call.native.method = "POST"
    /\ call.native.apiKey = "key"
    /\ call.native.endpoint
         = NormalizeGeminiBaseUrl(call.env.base) \o "/"
             \o NormalizeGeminiModelId(StringOfModel(call.req.body.model))
             \o ":generateContent"

(* A base URL ending in /models/models and a model id between blanks: the  *)
(* adapted response came back from one call to the endpoint.               *)
OneNativeCallWitness ==
  /\ AtDone
  /\ Translating(call)
  /\ ~call.raised
  /\ call.outcome.via = "adapted"
  /\ call.net = <<NativeCall>>
  /\ call.req.body.model = JStr(" gemini-pro ")
  /\ call.native
       = [endpoint |-> "https://proxy.example/v1beta/models/models/gemini-pro:generateContent",
          method |-> "POST", apiKey |-> "key"]

(***************************************************************************)
(* The round trip of a tool call: the response of one call carries         *)
(* tool-use blocks with generated ids; the caller sends them back in the   *)
(* history of the next call, followed by their results.                    *)
(***************************************************************************)

(* The parts of the response that is sent back: those of SpecAssemble and  *)
(* a function call whose name is the empty string.                         *)
RoundTripParts ==
  GeminiParts \cup {GeminiPart(TRUE, Undefined, FunctionCall(JStr(""), EmptyObject))}

RoundTripJsons ==
  { [candidates |-> JArr(<<[content |-> [parts |-> ps], finishReason |-> JStr("STOP")]>>),
     usageMetadata |-> Undefined] :
      ps \in UNION {[1..n -> RoundTripParts] : n \in 0..MaxParts} }

(* `toolu_${randomUUID()}` (line 518), as the string the response carries. *)
IdText(id) == id.prefix \o ToString(id.uuid)

(* A block of the response as the caller sends it back in the history. *)
EchoBlock(b) ==
  IF b.type = "text" THEN TextIn(JStr(b.text))
  ELSE ToolUseIn(JStr(b.name), JStr(IdText(b.id)), b.input)

ToolUsesOf(blocks) == SelectSeq(blocks, LAMBDA b : b.type = "tool_use")

(* The result of each tool-use block of the response, in the order of the  *)
(* blocks or in the reverse order; a result carries the id as its content. *)
ResultsFor(blocks, reversed) ==
  LET uses == ToolUsesOf(blocks)
      n == Len(uses)
  IN [i \in 1..n |->
        LET b == uses[IF reversed THEN n + 1 - i ELSE i]
        IN ToolResultIn(JStr(IdText(b.id)), FALSE, JStr(IdText(b.id)))]

(* The history of the next call: the question, the response, the results. *)
NextHistory(message, reversed) ==
  <<Message(TRUE, JStr("user"), JStr("hi")),
    Message(TRUE, JStr(message.role),
            JArr([i \in DOMAIN message.content |-> EchoBlock(message.content[i])])),
    Message(TRUE, JStr("user"), JArr(ResultsFor(message.content, reversed)))>>

(* SpecRoundTrip: the response of call k is assembled, then the contents   *)
(* of call k+1 are built from the history that holds it.                   *)
NextRoundTrip ==
  \/ /\ ~asm.made
     /\ \E g \in RoundTripJsons, m \in RequestedModels, s \in BOOLEAN, u \in UuidDraws :
          Assemble(g, m, s, u)
  \/ /\ asm.made
     /\ conv = << >>
     /\ \E reversed \in BOOLEAN :
          Build(JArr(NextHistory(asm.result.message, reversed)))

SpecRoundTrip == Init /\ [][NextRoundTrip]_vars

(* The contents hold a functionResponse part named name for the result of  *)
(* the tool use id.                                                        *)
ResolvedAs(contents, id, name) ==
  \E i \in DOMAIN contents : \E j \in DOMAIN contents[i].parts :
    LET p == contents[i].parts[j]
    IN /\ DOMAIN p = {"functionResponse"}
       /\ p.functionResponse.name = JStr(name)
       /\ p.functionResponse.response.content = JStr(id)

(* The result of the tool use id is in no part of the contents. *)
Dropped(contents, id) ==
  \A i \in DOMAIN contents : \A j \in DOMAIN contents[i].parts :
    LET p == contents[i].parts[j]
    IN DOMAIN p = {"functionResponse"} => p.functionResponse.response.content # JStr(id)

RoundTripMade == asm.made /\ Len(conv) = 1

(* C27 as stated: every tool-use block the adapter returned, with id X and *)
(* name N, has its result resolved to the function name N in the next call *)
(* that holds the block and the result in its history.                     *)
ToolCallIdsSurvive ==
  RoundTripMade =>
    \A i \in DOMAIN asm.result.message.content :
      LET b == asm.result.message.content[i]
      IN b.type = "tool_use"
           => ResolvedAs(conv[1].result.contents, IdText(b.id), b.name)

(* C27: a returned tool-use block with id X and a non-empty name N has the *)
(* result for X resolved to the function name N in the next call, from the *)
(* history alone: the table of that call starts empty. A returned block    *)
(* whose name is the empty string has its result dropped.                  *)
NamedToolCallIdsSurvive ==
  RoundTripMade =>
    /\ conv[1].result = BuildGeminiContents(conv[1].messages, NoToolUses)
    /\ \A i \in DOMAIN asm.result.message.content :
         LET b == asm.result.message.content[i]
         IN b.type = "tool_use"
              => IF b.name # ""
                 THEN ResolvedAs(conv[1].result.contents, IdText(b.id), b.name)
                 ELSE Dropped(conv[1].result.contents, IdText(b.id))

(* The response held the calls f and g, their results came back in the     *)
(* reverse order, and each is resolved to its own name.                    *)
NamedToolCallIdsSurviveWitness ==
  /\ RoundTripMade
  /\ LET blocks == asm.result.message.content
     IN /\ Len(blocks) = 2
        /\ blocks[1].type = "tool_use" /\ blocks[1].name = "f"
        /\ blocks[2].type = "tool_use" /\ blocks[2].name = "g"
        /\ conv[1].messages.a[3].content.a[1].tool_use_id = JStr(IdText(blocks[2].id))
        /\ ResolvedAs(conv[1].result.contents, IdText(blocks[1].id), "f")
        /\ ResolvedAs(conv[1].result.contents, IdText(blocks[2].id), "g")

(***************************************************************************)
(* The API profile store (config/storage.ts, as its tests call it) and the *)
(* handlers of the settings page that drive it.                            *)
(***************************************************************************)

MaxProfiles == 3

ApiProfile(id, name) == [id |-> id, name |-> name]

DefaultProfile == ApiProfile("default", "Default")

(* The ids createApiProfile can generate. *)
GeneratedIds == {"p1", "p2", "p3", "p4"}

IdsOf(profiles) == {profiles[i].id : i \in DOMAIN profiles}

(* The apiProfiles of config.json when the store is first read: missing,   *)
(* or the lists the tests write.                                           *)
StoredProfiles ==
  {<< >>, <<DefaultProfile>>, <<DefaultProfile, ApiProfile("p2", "OpenRouter")>>}

(* getApiProfiles(): the default profile is created when none is stored. *)
GetApiProfiles(stored) == IF stored = << >> THEN <<DefaultProfile>> ELSE stored

(* What a call of the store leaves: the list, the active id, the value     *)
(* returned.                                                               *)
StoreResult(profiles, activeId, ret) ==
  [profiles |-> profiles, activeId |-> activeId, ret |-> ret]

(* setActiveApiProfile(id) *)
SetActiveApiProfile(st, id) ==
  IF id \in IdsOf(st.profiles) THEN StoreResult(st.profiles, id, TRUE)
  ELSE StoreResult(st.profiles, st.activeId, FALSE)

(* createApiProfile(name, activate), newId being the id it generates. *)
CreateApiProfile(st, name, activate, newId) ==
  StoreResult(Append(st.profiles, ApiProfile(newId, name)),
         IF activate THEN newId ELSE st.activeId, TRUE)

(* renameApiProfile(id, name) *)
RenameApiProfile(st, id, name) ==
  IF id \in IdsOf(st.profiles)
  THEN StoreResult([i \in DOMAIN st.profiles |->
                 IF st.profiles[i].id = id THEN ApiProfile(id, name)
                 ELSE st.profiles[i]],
              st.activeId, TRUE)
  ELSE StoreResult(st.profiles, st.activeId, FALSE)

(* A deleteApiProfile that removes whatever profile it is given. *)
DeleteApiProfileAlways(st, id, nextActive) ==
  IF id \notin IdsOf(st.profiles) THEN StoreResult(st.profiles, st.activeId, FALSE)
  ELSE StoreResult(SelectSeq(st.profiles, LAMBDA pr : pr.id # id),
              IF st.activeId = id THEN nextActive ELSE st.activeId, TRUE)

(* deleteApiProfile(id): false for an unknown id and for the last          *)
(* remaining profile; nextActive is the profile that becomes active when   *)
(* the active one is deleted.                                              *)
DeleteApiProfile(st, id, nextActive) ==
  IF id \notin IdsOf(st.profiles) \/ Len(st.profiles) <= 1
  THEN StoreResult(st.profiles, st.activeId, FALSE)
  ELSE StoreResult(SelectSeq(st.profiles, LAMBDA pr : pr.id # id),
              IF st.activeId = id THEN nextActive ELSE st.activeId, TRUE)

(* The names typed into the dialogs, and String.prototype.trim on them. *)
TypedNames == {"", " ", " New Profile ", "Renamed"}

TrimName(s) ==
  CASE s = " " -> ""
    [] s = " New Profile " -> "New Profile"
    [] OTHER -> s

(* The store after a call, with the call as the last operation. *)
AfterCall(op, id, r) ==
  [loaded |-> TRUE, profiles |-> r.profiles, activeId |-> r.activeId,
   last |-> [op |-> op, id |-> id, ret |-> r.ret, before |-> prof.profiles]]

Unchanged(op, id) == AfterCall(op, id, StoreResult(prof.profiles, prof.activeId, FALSE))

ProfileFrame ==
  UNCHANGED <<fs, now, seqlog, pend, pc, loc, hist, call, asm, conv, fwd, sch, greq,
              logr>>

(* loadConnectionInfo: the first read of the store. *)
LoadConnectionInfo(stored) ==
  /\ ~prof.loaded
  /\ prof' = AfterCall("load", "", StoreResult(GetApiProfiles(stored), "default", TRUE))
  /\ ProfileFrame

(* handleSwitchProfile(profileId), profileId an option of the menu. *)
HandleSwitchProfile(profileId) ==
  /\ prof.loaded
  /\ profileId \in IdsOf(prof.profiles)
  /\ prof' = AfterCall("switch", profileId, SetActiveApiProfile(prof, profileId))
  /\ ProfileFrame

(* handleCreateProfile (part_000 lines 159-174) *)
HandleCreateProfile(newProfileName, newId) ==
  /\ prof.loaded
  /\ Len(prof.profiles) < MaxProfiles
  /\ newId \in GeneratedIds \ IdsOf(prof.profiles)
  /\ LET name == TrimName(newProfileName)
     IN prof' = IF name = "" THEN Unchanged("create", "")
                ELSE AfterCall("create", newId, CreateApiProfile(prof, name, TRUE, newId))
  /\ ProfileFrame

(* handleRenameProfile (part_000 lines 184-197): the active profile. *)
HandleRenameProfile(renameProfileName) ==
  /\ prof.loaded
  /\ LET nextName == TrimName(renameProfileName)
     IN prof' = IF prof.activeId \notin IdsOf(prof.profiles) \/ nextName = ""
                THEN Unchanged("rename", prof.activeId)
                ELSE AfterCall("rename", prof.activeId,
                               RenameApiProfile(prof, prof.activeId, nextName))
  /\ ProfileFrame

(* handleDeleteProfile (part_000 lines 199-214): the active profile, never *)
(* the last one, and only when the user confirms.                          *)
HandleDeleteProfile(confirmed, nextActive) ==
  /\ prof.loaded
  /\ nextActive \in IdsOf(prof.profiles) \ {prof.activeId}
       \/ (Len(prof.profiles) <= 1 /\ nextActive = prof.activeId)
  /\ prof' = IF \/ prof.activeId \notin IdsOf(prof.profiles)
                \/ Len(prof.profiles) <= 1
                \/ ~confirmed
             THEN Unchanged("handleDelete", prof.activeId)
             ELSE AfterCall("handleDelete", prof.activeId,
                            DeleteApiProfile(prof, prof.activeId, nextActive))
  /\ ProfileFrame

(* storage.deleteApiProfile(id) called directly, as the tests call it. *)
DeleteCall(id, nextActive) ==
  /\ prof.loaded
  /\ nextActive \in IdsOf(prof.profiles) \ {id}
       \/ (IdsOf(prof.profiles) \subseteq {id} /\ nextActive = id)
  /\ prof' = AfterCall("delete", id, DeleteApiProfile(prof, id, nextActive))
  /\ ProfileFrame

NextProfiles ==
  \/ \E stored \in StoredProfiles : LoadConnectionInfo(stored)
  \/ \E profileId \in {"default"} \cup GeneratedIds : HandleSwitchProfile(profileId)
  \/ \E name \in TypedNames, newId \in GeneratedIds : HandleCreateProfile(name, newId)
  \/ \E name \in TypedNames : HandleRenameProfile(name)
  \/ \E confirmed \in BOOLEAN, nextActive \in {"default"} \cup GeneratedIds :
       HandleDeleteProfile(confirmed, nextActive)
  \/ \E id \in {"default", "does-not-exist"} \cup GeneratedIds,
        nextActive \in {"default"} \cup GeneratedIds :
       DeleteCall(id, nextActive)

SpecProfiles == Init /\ [][NextProfiles]_vars

(* The last operation was deleteApiProfile, called directly. *)
Deleted == prof.loaded /\ prof.last.op = "delete"

(* C24: after any sequence of create, rename, switch and delete operations *)
(* the list holds at least one profile; deleteApiProfile on the only       *)
(* remaining profile, or with an id that does not exist, returns false and *)
(* leaves the list unchanged.                                              *)
LastProfileKept ==
  /\ prof.loaded => Len(prof.profiles) >= 1
  /\ (Deleted /\ (Len(prof.last.before) = 1 \/ prof.last.id \notin IdsOf(prof.last.before)))
       => (~prof.last.ret /\ prof.profiles = prof.last.before)

(* A profile was created and renamed, the default profile was deleted, and *)
(* deleting the only profile left was refused.                             *)
LastProfileKeptWitness ==
  /\ Deleted
  /\ ~prof.last.ret
  /\ prof.last.id = "p1"
  /\ prof.profiles = <<ApiProfile("p1", "Renamed")>>
  /\ prof.last.before = prof.profiles

----------------------------------------------------------------------------
(* SpecLog: logResponse step by step, with the Response objects it makes.  *)
(* A Response object is absent, unread, or read (bodyUsed); clone() makes  *)
(* a new unread object and leaves the original unread; text() marks the    *)
(* object it is called on as read, whether it resolves or rejects.         *)

Objects == {"response", "errorClone", "clone"}

(* The objects when logResponse is entered: the response alone, unread. *)
FreshResponse ==
  [o \in Objects |-> IF o = "response" THEN "unread" ELSE "absent"]

(* response.clone() bound to the name o (lines 754, 812). *)
Clone(objs, o) == [objs EXCEPT ![o] = "unread"]

(* await o.text() *)
ReadText(objs, o) == [objs EXCEPT ![o] = "read"]

(* The error text read from the response itself. *)
ReadResponseText(objs) == ReadText(objs, "response")

(* await errorClone.text() (line 756) *)
ReadErrorText(objs) == ReadText(objs, "errorClone")

(* await clone.text() (line 814) *)
ReadLoggedText(objs) == ReadText(objs, "clone")

(* return response *)
ReturnResponse(l) == [l EXCEPT !.pc = "done", !.returned = "response"]

(* Lines 791-812: the debug gate, the event-stream test and the clone. *)
DebugGate(l) ==
  IF ~l.debug THEN ReturnResponse(l)
  ELSE IF l.eventStream THEN ReturnResponse(l)
  ELSE [l EXCEPT !.pc = "debug_read", !.objs = Clone(@, "clone")]

(* Lines 746-756: the capture test and the clone, up to the first await. *)
LogEnter(resp, url, debug, eventStream) ==
  /\ logr.pc = "idle"
  /\ LET l == [pc |-> "entered", resp |-> resp, url |-> url, debug |-> debug,
               eventStream |-> eventStream, objs |-> FreshResponse,
               returned |-> "none", failed |-> {}]
     IN logr' = IF Captures(resp, url)
                THEN [l EXCEPT !.pc = "error_read", !.objs = Clone(@, "errorClone")]
                ELSE DebugGate(l)
  /\ UNCHANGED <<fs, now, seqlog, pend, pc, loc, hist, call, asm, conv, fwd, sch, greq,
                 prof>>

(* Lines 756-812: errorClone.text() settles, the error is stored. *)
ErrorRead ==
  /\ logr.pc = "error_read"
  /\ fs' = SetStoredError(fs, CapturedError(logr.resp, now))
  /\ logr' = DebugGate(
       [logr EXCEPT !.objs = ReadErrorText(@),
                    !.failed = IF logr.resp.body.kind = "unreadable"
                               THEN @ \cup {"errorClone"} ELSE @])
  /\ UNCHANGED <<now, seqlog, pend, pc, loc, hist, call, asm, conv, fwd, sch, greq,
                 prof>>

(* Lines 814-826: clone.text() settles, the body is logged or not. *)
DebugRead ==
  /\ logr.pc = "debug_read"
  /\ logr' = ReturnResponse(
       [logr EXCEPT !.objs = ReadLoggedText(@),
                    !.failed = IF logr.resp.body.kind = "unreadable"
                               THEN @ \cup {"clone"} ELSE @])
  /\ UNCHANGED <<fs, now, seqlog, pend, pc, loc, hist, call, asm, conv, fwd, sch, greq,
                 prof>>

(* The caller has the response. *)
LogReturned ==
  /\ logr.pc = "done"
  /\ logr' = NoLog
  /\ UNCHANGED <<fs, now, seqlog, pend, pc, loc, hist, call, asm, conv, fwd, sch, greq,
                 prof>>

NextLog ==
  \/ \E resp \in Responses, url \in Urls, debug \in BOOLEAN, eventStream \in BOOLEAN :
       LogEnter(resp, url, debug, eventStream)
  \/ ErrorRead
  \/ DebugRead
  \/ LogReturned

SpecLog == Init /\ [][NextLog]_vars

(* C35: logResponse never reads the response it was given: at every step  *)
(* that object is unread, and the object returned is that response,        *)
(* whether or not the recorder or the debug logger read a clone and        *)
(* whether or not such a read failed.                                      *)
CallerBodyUnread ==
  logr.pc # "idle" =>
    /\ logr.objs["response"] = "unread"
    /\ logr.pc = "done" => logr.returned = "response"

(* The recorder and the debug logger both read a clone, both reads failed, *)
(* and the response is returned unread.                                    *)
CallerBodyUnreadWitness ==
  /\ logr.pc = "done"
  /\ logr.objs = [o \in Objects |-> IF o = "response" THEN "unread" ELSE "read"]
  /\ logr.failed = {"errorClone", "clone"}
  /\ logr.returned = "response"

====
